---- MODULE Spec2Model ----
(***************************************************************************)
(* A model of the schema-driven transform engine of                        *)
(* fast-transformer-interceptor (FastTransformInterceptor, second revision *)
(* in src/src/interceptors/fast-transform.interceptor.spec.ts, lines       *)
(* 1705-2204): schema preparation and caching, the recursive transform,    *)
(* primitive coercion and the TransformError it raises.                    *)
(*                                                                         *)
(* JavaScript values are tagged records.  The payload field has another    *)
(* name for every shape, so that two values of different shapes are never  *)
(* compared payload by payload:                                            *)
(*   [t |-> "undefined"]  [t |-> "null"]                                   *)
(*   [t |-> "number", s |-> "30"]   (s = "NaN" is not-a-number)            *)
(*   [t |-> "string", s |-> ..]  [t |-> "boolean", s |-> "true"]           *)
(*   [t |-> "bigint", s |-> ..]  [t |-> "symbol", s |-> ..]                *)
(*   [t |-> "date", s |-> ms]      (s = "NaN" is an invalid date)          *)
(*   [t |-> "object", o |-> [key |-> value]]   a plain record              *)
(*   [t |-> "array", a |-> <<value, ...>>]                                 *)
(*   [t |-> "model", p |-> plain]  an ORM instance whose get({plain:true}) *)
(*                                 returns p; it has no own schema keys    *)
(* Numbers are kept as their canonical decimal literal, so that String(1)  *)
(* is the string "1" and Number("1") the number 1: a conversion changes    *)
(* the tag and keeps the digits.                                           *)
(***************************************************************************)
EXTENDS Integers, Sequences, FiniteSets, TLC

VARIABLES meta, dtoCache, factoryCalls, isArray, options, config, upstream, data,
          pending, result, delivered, ncalls

vars == <<meta, dtoCache, factoryCalls, isArray, options, config, upstream, data,
          pending, result, delivered, ncalls>>

(***************************************************************************)
(* Values                                                                  *)
(***************************************************************************)
Undef == [t |-> "undefined"]
Null == [t |-> "null"]
Num(s) == [t |-> "number", s |-> s]
Str(s) == [t |-> "string", s |-> s]
Bool(s) == [t |-> "boolean", s |-> s]
BigIntV(s) == [t |-> "bigint", s |-> s]
DateV(s) == [t |-> "date", s |-> s]
Obj(o) == [t |-> "object", o |-> o]
Arr(a) == [t |-> "array", a |-> a]
Model(p) == [t |-> "model", p |-> p]
EmptyRec == [k \in {} |-> Null]

IsNullish(v) == v.t \in {"undefined", "null"}
IsArray(v) == v.t = "array"

\* typeof v
TypeOf(v) ==
  IF v.t \in {"undefined", "number", "string", "boolean", "bigint", "symbol"}
  THEN v.t
  ELSE "object"

\* obj.hasOwnProperty(key), for the keys a schema declares (never an index or
\* "length"): only a plain record owns them.
HasOwn(v, key) == v.t = "object" /\ key \in DOMAIN v.o

\* The decimal integer literals of the value universe: the strings Number()
\* and BigInt() parse, and the digits String() prints.
NumericLiterals == {"0", "1", "2", "7", "30"}
\* The date strings new Date() parses, with their epoch milliseconds.
DateLiterals == {"2020-01-01"}
DateMillis(s) == "1577836800000"

RECURSIVE JsJoin(_, _)
RECURSIVE JsString(_)
\* Array.prototype.join(","): null and undefined elements print as "".
JsJoin(a, i) ==
  IF i > Len(a) THEN ""
  ELSE (IF i > 1 THEN "," ELSE "")
       \o (IF IsNullish(a[i]) THEN "" ELSE JsString(a[i]))
       \o JsJoin(a, i + 1)

\* String(v)
JsString(v) ==
  CASE v.t \in {"undefined", "null"} -> v.t
    [] v.t \in {"number", "string", "boolean", "bigint"} -> v.s
    [] v.t = "symbol" -> "Symbol(" \o v.s \o ")"
    [] v.t = "date" -> IF v.s = "NaN" THEN "Invalid Date" ELSE "Date(" \o v.s \o ")"
    [] v.t = "array" -> JsJoin(v.a, 1)
    [] OTHER -> "[object Object]"

\* Number(s) for a string s
NumberOfString(s) ==
  IF s = "" THEN Num("0")
  ELSE IF s \in NumericLiterals THEN Num(s) ELSE Num("NaN")

\* Number(v); thrown for a symbol (TypeError)
JsNumber(v) ==
  CASE v.t = "undefined" -> [thrown |-> FALSE, val |-> Num("NaN")]
    [] v.t = "null" -> [thrown |-> FALSE, val |-> Num("0")]
    [] v.t = "number" -> [thrown |-> FALSE, val |-> v]
    [] v.t = "string" -> [thrown |-> FALSE, val |-> NumberOfString(v.s)]
    [] v.t = "boolean" ->
         [thrown |-> FALSE, val |-> Num(IF v.s = "true" THEN "1" ELSE "0")]
    [] v.t = "bigint" -> [thrown |-> FALSE, val |-> Num(v.s)]
    [] v.t = "symbol" -> [thrown |-> TRUE, val |-> Undef]
    [] v.t = "date" -> [thrown |-> FALSE, val |-> Num(v.s)]
    [] OTHER -> [thrown |-> FALSE, val |-> NumberOfString(JsString(v))]

\* A conversion that reads the strings "false" and "0" as false
JsBooleanParsed(v) ==
  Bool(IF \/ IsNullish(v)
          \/ (v.t \in {"number", "bigint"} /\ v.s \in {"0", "NaN"})
          \/ (v.t = "string" /\ v.s \in {"", "false", "0"})
          \/ (v.t = "boolean" /\ v.s = "false")
       THEN "false" ELSE "true")
\* Boolean(v): truthiness
JsBoolean(v) ==
  Bool(IF \/ IsNullish(v)
          \/ (v.t \in {"number", "bigint"} /\ v.s \in {"0", "NaN"})
          \/ (v.t = "string" /\ v.s = "")
          \/ (v.t = "boolean" /\ v.s = "false")
       THEN "false" ELSE "true")

\* BigInt(s) for a string s; thrown is a SyntaxError
BigIntOfString(s) ==
  IF s = "" THEN [thrown |-> FALSE, val |-> BigIntV("0")]
  ELSE IF s \in NumericLiterals THEN [thrown |-> FALSE, val |-> BigIntV(s)]
  ELSE [thrown |-> TRUE, val |-> Undef]

\* BigInt(v)
JsBigInt(v) ==
  CASE v.t \in {"undefined", "null", "symbol"} -> [thrown |-> TRUE, val |-> Undef]
    [] v.t = "number" ->
         IF v.s = "NaN" THEN [thrown |-> TRUE, val |-> Undef]
         ELSE [thrown |-> FALSE, val |-> BigIntV(v.s)]
    [] v.t = "string" -> BigIntOfString(v.s)
    [] v.t = "boolean" ->
         [thrown |-> FALSE, val |-> BigIntV(IF v.s = "true" THEN "1" ELSE "0")]
    [] v.t = "bigint" -> [thrown |-> FALSE, val |-> v]
    [] v.t = "date" -> BigIntOfString(v.s)
    [] OTHER -> BigIntOfString(JsString(v))

\* new Date(v): a number is taken as epoch milliseconds, a string is parsed.
JsDate(v) ==
  CASE v.t = "number" -> [thrown |-> FALSE, val |-> DateV(v.s)]
    [] v.t = "date" -> [thrown |-> FALSE, val |-> v]
    [] v.t = "string" ->
         [thrown |-> FALSE,
          val |-> DateV(IF v.s \in DateLiterals THEN DateMillis(v.s) ELSE "NaN")]
    [] v.t = "null" -> [thrown |-> FALSE, val |-> DateV("0")]
    [] v.t = "boolean" ->
         [thrown |-> FALSE, val |-> DateV(IF v.s = "true" THEN "1" ELSE "0")]
    [] v.t \in {"symbol", "bigint"} -> [thrown |-> TRUE, val |-> Undef]
    [] OTHER -> [thrown |-> FALSE, val |-> DateV("NaN")]

(***************************************************************************)
(* Primitive coercer                                                       *)
(***************************************************************************)
\* getExpectedTypeName(type): type is the resolved constructor
getExpectedTypeName(type) ==
  IF type.k = "ctor" /\ type.n \in {"Number", "String", "Boolean", "BigInt", "Symbol", "Date"}
  THEN CASE type.n = "Number" -> "number"
         [] type.n = "String" -> "string"
         [] type.n = "Boolean" -> "boolean"
         [] type.n = "BigInt" -> "bigint"
         [] type.n = "Symbol" -> "symbol"
         [] type.n = "Date" -> "date"
  ELSE "unknown"

\* A check that lets every value pass for a type name it does not know
validatePrimitiveTypeLenient(value, expectedType) ==
  CASE expectedType = "number" -> value.t = "number" /\ value.s # "NaN"
    [] expectedType = "string" -> value.t = "string"
    [] expectedType = "boolean" -> value.t = "boolean"
    [] expectedType = "bigint" -> value.t = "bigint"
    [] expectedType = "symbol" -> value.t = "symbol"
    [] expectedType = "date" -> value.t = "date" /\ value.s # "NaN"
    [] OTHER -> TRUE
validatePrimitiveType(value, expectedType) ==
  CASE expectedType = "number" -> value.t = "number" /\ value.s # "NaN"
    [] expectedType = "string" -> value.t = "string"
    [] expectedType = "boolean" -> value.t = "boolean"
    [] expectedType = "bigint" -> value.t = "bigint"
    [] expectedType = "symbol" -> value.t = "symbol"
    [] expectedType = "date" -> value.t = "date" /\ value.s # "NaN"
    [] OTHER -> FALSE

\* A coercer that converts nothing
coerceNothing(value, expectedType) == [thrown |-> FALSE, val |-> value]
coerceToPrimitiveType(value, expectedType) ==
  CASE expectedType = "number" -> JsNumber(value)
    [] expectedType = "string" -> [thrown |-> FALSE, val |-> Str(JsString(value))]
    [] expectedType = "boolean" -> [thrown |-> FALSE, val |-> JsBoolean(value)]
    [] expectedType = "bigint" -> JsBigInt(value)
    [] expectedType = "date" -> JsDate(value)
    [] OTHER -> [thrown |-> FALSE, val |-> value]

(***************************************************************************)
(* Schema preparation (field classifier) and the schema cache              *)
(*                                                                         *)
(* A resolved type (value.type()) is one of                                *)
(*   [k |-> "ctor", n |-> "Number"]   a built-in constructor or any other  *)
(*                                    function that is not a class         *)
(*   [k |-> "class", c |-> "Sub"]     a DTO class                          *)
(*   [k |-> "array", e |-> type]      [type]                               *)
(*   [k |-> "inline", fields |-> <<raw field, ...>>]  an inline field map  *)
(* A raw field is [name, type, required, nullable, hasEnum, enum]; the     *)
(* metadata factory of a class returns them in declaration order.          *)
(* meta[c] holds what the annotation layer knows of class c: its display   *)
(* name, its factory's output, the class-level @NoCheck and                *)
(* @NoCheckPrimitives, and the keys carrying @NoCheck and @NoOut.          *)
(***************************************************************************)
TNumber == [k |-> "ctor", n |-> "Number"]
TString == [k |-> "ctor", n |-> "String"]
TBoolean == [k |-> "ctor", n |-> "Boolean"]
TObject == [k |-> "ctor", n |-> "Object"]
TClass(c) == [k |-> "class", c |-> c]
TArrayOf(e) == [k |-> "array", e |-> e]
TInline(fields) == [k |-> "inline", fields |-> fields]

\* isClass(func): a function whose source text starts with "class"
isClass(type) == type.k = "class"

\* Reflect.getMetadata(key, DtoClass.prototype, property); the inline field
\* maps are prepared with DtoClass = Object, which carries no decorators.
PropertyNoCheck(m, DtoClass, key) ==
  DtoClass \in DOMAIN m /\ key \in m[DtoClass].noCheckProps
PropertyNoOut(m, DtoClass, key) ==
  DtoClass \in DOMAIN m /\ key \in m[DtoClass].noOutProps

\* The bit mask prepareField stores as typeCheck
TypeCheckOf(isPrimitive, isClassF, isArrayOfClass, isEnum, isArrayOfPrimitive, isNestedObject) ==
  (IF isPrimitive THEN 1 ELSE 0) + (IF isClassF THEN 2 ELSE 0)
  + (IF isArrayOfClass THEN 4 ELSE 0) + (IF isEnum THEN 8 ELSE 0)
  + (IF isArrayOfPrimitive THEN 16 ELSE 0) + (IF isNestedObject THEN 32 ELSE 0)

\* The flag merge of prepareField: @NoCheckPrimitives forces noCheck on the
\* primitive and array-of-primitive fields only.
MergedNoCheck(noCheck, noCheckPrimitives, isPrimitive, isArrayOfPrimitive) ==
  IF (isPrimitive \/ isArrayOfPrimitive) /\ noCheckPrimitives THEN TRUE ELSE noCheck

\* A prepareMetadata that skips no key
KeepsFieldAlways(m, DtoClass, key) == TRUE
\* Whether prepareMetadata gives the key a descriptor
KeepsField(m, DtoClass, key) == ~PropertyNoOut(m, DtoClass, key)

\* A nested field map that starts again without the class's flag
InheritedNever(noCheckPrimitives) == FALSE
\* The noCheckPrimitives argument prepareField hands to the prepareMetadata
\* of an inline field map: the one it was given
InheritedNoCheckPrimitives(noCheckPrimitives) == noCheckPrimitives

RECURSIVE prepareMetadata(_, _, _, _, _)
RECURSIVE prepareField(_, _, _, _)

prepareField(m, value, noCheck, noCheckPrimitives) ==
  LET type == value.type
      isNestedObject == type.k = "inline"
      isEnum == value.hasEnum
      isClassF == ~isNestedObject /\ isClass(type)
      isArrayOfClass == ~isNestedObject /\ type.k = "array" /\ isClass(type.e)
      isArrayOfPrimitive == ~isNestedObject /\ type.k = "array" /\ ~isClass(type.e)
      isPrimitive == /\ ~isNestedObject
                     /\ ~isClassF /\ ~isArrayOfClass /\ ~isArrayOfPrimitive
                     /\ ~isEnum
  IN [name |-> value.name,
      type |-> type,
      required |-> value.required,
      nullable |-> value.nullable,
      enum |-> value.enum,
      isEnum |-> isEnum,
      isPrimitive |-> isPrimitive,
      isClass |-> isClassF,
      isArrayOfClass |-> isArrayOfClass,
      isArrayOfPrimitive |-> isArrayOfPrimitive,
      isNestedObject |-> isNestedObject,
      nestedFields |->
        IF isNestedObject
        THEN prepareMetadata(m, type.fields, "Object", noCheck,
                             InheritedNoCheckPrimitives(noCheckPrimitives))
        ELSE <<>>,
      typeCheck |-> TypeCheckOf(isPrimitive, isClassF, isArrayOfClass, isEnum,
                                isArrayOfPrimitive, isNestedObject),
      expectedType |->
        IF isPrimitive \/ isArrayOfPrimitive
        THEN getExpectedTypeName(IF isArrayOfPrimitive THEN type.e ELSE type)
        ELSE "null",
      noCheck |-> MergedNoCheck(noCheck, noCheckPrimitives, isPrimitive, isArrayOfPrimitive)]

\* Object.entries(metadata).reduce(...): the descriptors of the fields that
\* are not @NoOut, in declaration order.
prepareMetadata(m, metadata, DtoClass, classNoCheck, classNoCheckPrimitives) ==
  IF metadata = <<>> THEN <<>>
  ELSE LET value == Head(metadata)
           rest == prepareMetadata(m, Tail(metadata), DtoClass, classNoCheck,
                                   classNoCheckPrimitives)
       IN IF KeepsField(m, DtoClass, value.name)
          THEN <<prepareField(m, value,
                              classNoCheck \/ PropertyNoCheck(m, DtoClass, value.name),
                              classNoCheckPrimitives)>> \o rest
          ELSE rest

\* DtoClass.name, the cache key
ClassName(m, DtoClass) == m[DtoClass].name

\* What transformDtoFilter builds for a class on a cache miss
BuildFilter(m, DtoClass) ==
  prepareMetadata(m, m[DtoClass].factory, DtoClass, m[DtoClass].noCheck,
                  m[DtoClass].noCheckPrimitives)

\* A cache that never has the name
CacheHasNever(cache, name) == FALSE
\* dtoCache.has(DtoClass.name)
CacheHas(cache, name) == name \in DOMAIN cache.dto

\* A set that also stores the descriptor of every other declared class
CacheSetAll(dto, m, DtoClass) ==
  [n \in DOMAIN dto \cup {ClassName(m, c) : c \in DOMAIN m} |->
     IF n \in DOMAIN dto THEN dto[n]
     ELSE BuildFilter(m, CHOOSE c \in DOMAIN m : ClassName(m, c) = n)]
\* dtoCache.set(DtoClass.name, preparedMetadata)
CacheSet(dto, m, DtoClass) ==
  (ClassName(m, DtoClass) :> BuildFilter(m, DtoClass)) @@ dto

\* transformDtoFilter(DtoClass).  cache is the module-level schema cache (dto)
\* together with the number of times each class name's
\* _OPENAPI_METADATA_FACTORY has been invoked so far (calls); the operator
\* yields both as the call leaves them, and the filter it returns is the
\* entry under the class's name.
transformDtoFilter(m, cache, DtoClass) ==
  IF CacheHas(cache, ClassName(m, DtoClass)) THEN cache
  ELSE [cache EXCEPT !.dto = CacheSet(cache.dto, m, DtoClass),
                     !.calls[ClassName(m, DtoClass)] = @ + 1]

\* A lookup that gives every class the descriptor of its own declaration
CacheGetOwn(m, cache, DtoClass) == BuildFilter(m, DtoClass)
\* return dtoCache.get(DtoClass.name)
CacheGet(m, cache, DtoClass) == cache.dto[ClassName(m, DtoClass)]

(***************************************************************************)
(* Error model and the transform engine                                    *)
(*                                                                         *)
(* A call returns [ok |-> TRUE, val, cache] or, when it throws,            *)
(* [ok |-> FALSE, err, cache]; cache is the schema cache and the factory   *)
(* invocation counts as the call leaves them (entries added by lazy        *)
(* resolution stay when it throws).  With them travel the number of frames *)
(* of transform() on the call stack (depth) and the largest number there   *)
(* has been (peak).                                                        *)
(* An absent constructor argument is "undefined" (expectedType) or <<>>    *)
(* (expectedValues); the error's filter argument is not kept.              *)
(***************************************************************************)
TransformError(message, dtoName, fieldName, receivedValue, expectedType, expectedValues, fullObject) ==
  [name |-> "TransformError",
   message |-> message,
   dtoName |-> dtoName,
   fieldName |-> fieldName,
   receivedValue |-> receivedValue,
   expectedType |-> expectedType,
   expectedValues |-> expectedValues,
   fullObject |-> fullObject]

Ok(val, cache) == [ok |-> TRUE, val |-> val, cache |-> cache]
Throw(err, cache) == [ok |-> FALSE, err |-> err, cache |-> cache]

\* `${fieldPath}[${index}]` for the element at position i (index i - 1)
IndexPath(fieldPath, i) == fieldPath \o "[" \o ToString(i - 1) \o "]"

\* fieldMetadata.type.name
TypeName(m, type) ==
  CASE type.k = "ctor" -> type.n
    [] type.k = "class" -> ClassName(m, type.c)
    [] OTHER -> "undefined"

\* A membership test that accepts every value
EnumIncludesAlways(enum, value) == TRUE
\* Object.values(fieldMetadata.enum).includes(value)
EnumIncludes(enum, value) == \E i \in 1..Len(enum) : enum[i] = value

\* The missing-key condition without the nested-object clause
MissingThrowsRequiredOnly(fm) == ~fm.noCheck /\ fm.required
\* transform, key not owned: the condition under which it throws
\* "Required field '<key>' is missing"
MissingThrows(fm) == ~fm.noCheck /\ (fm.required \/ fm.isNestedObject)

\* The undefined condition with the nullable clause of the first revision
UndefinedThrowsUnlessNullable(fm) == ~fm.noCheck /\ fm.required /\ ~fm.nullable
\* transform, key owned and undefined: the condition under which it throws
\* "Required field '<key>' cannot be undefined"
UndefinedThrows(fm) == ~fm.noCheck /\ fm.required

\* A null condition that also lets an optional field hold null
NullAllowedIfOptional(fm) == fm.noCheck \/ fm.nullable \/ ~fm.required
\* transform, key owned and null: the condition under which null is kept
NullAllowed(fm) == fm.noCheck \/ fm.nullable

\* A result that starts as a copy of the input record
InitialResultCopy(obj) == IF obj.t = "object" THEN obj.o ELSE EmptyRec
\* const result = {}
InitialResult(obj) == EmptyRec

\* result[key] = value
SetKey(res, key, val) == [k \in DOMAIN res \cup {key} |-> IF k = key THEN val ELSE res[k]]

transformPrimitive(value, fieldMetadata, fieldPath) ==
  IF fieldMetadata.noCheck THEN [ok |-> TRUE, val |-> value]
  ELSE LET expectedType == fieldMetadata.expectedType
           coerced == coerceToPrimitiveType(value, expectedType)
           failed == [ok |-> FALSE,
                      err |-> TransformError("Field should be a " \o expectedType,
                                             fieldPath, "", value, expectedType, <<>>, value)]
       IN IF validatePrimitiveType(value, expectedType)
          THEN [ok |-> TRUE, val |-> value]
          ELSE IF coerced.thrown THEN failed
          ELSE IF ~validatePrimitiveType(coerced.val, expectedType) THEN failed
          ELSE [ok |-> TRUE, val |-> coerced.val]

\* validateFieldType(value, fieldMetadata, fieldPath)
validateFieldType(value, fieldMetadata) ==
  IF fieldMetadata.noCheck THEN [isValid |-> TRUE, expectedType |-> "undefined"]
  ELSE CASE fieldMetadata.typeCheck = 1 ->
              [isValid |-> validatePrimitiveType(value, fieldMetadata.expectedType),
               expectedType |-> fieldMetadata.expectedType]
         [] fieldMetadata.typeCheck \in {2, 32} ->
              [isValid |-> TypeOf(value) = "object" /\ value.t # "null",
               expectedType |-> "object"]
         [] fieldMetadata.typeCheck \in {4, 16} ->
              [isValid |-> IsArray(value), expectedType |-> "array"]
         [] fieldMetadata.typeCheck = 8 ->
              [isValid |-> EnumIncludes(fieldMetadata.enum, value), expectedType |-> "enum"]
         [] OTHER -> [isValid |-> FALSE, expectedType |-> "unknown"]

isFieldRequired(fieldMetadata) == fieldMetadata.required = TRUE

RECURSIVE NestedKeysCheck(_, _, _, _)
\* The per-key pass transformField runs over a nested object after its
\* transform: [ok |-> TRUE] or the error of the first offending nested key.
NestedKeysCheck(value, fieldMetadata, i, fieldPath) ==
  IF i > Len(fieldMetadata.nestedFields) THEN [ok |-> TRUE]
  ELSE LET nestedValue == fieldMetadata.nestedFields[i]
           nestedKey == nestedValue.name
           nestedFieldPath == fieldPath \o "." \o nestedKey
       IN IF HasOwn(value, nestedKey)
          THEN LET validationResult == validateFieldType(value.o[nestedKey], nestedValue)
               IN IF ~validationResult.isValid
                  THEN [ok |-> FALSE,
                        err |-> TransformError("Invalid type for nested field '" \o nestedKey \o "'",
                                               nestedFieldPath, nestedKey, value.o[nestedKey],
                                               validationResult.expectedType, <<>>, value)]
                  ELSE NestedKeysCheck(value, fieldMetadata, i + 1, fieldPath)
          ELSE IF isFieldRequired(nestedValue)
          THEN [ok |-> FALSE,
                err |-> TransformError("Required nested field '" \o nestedKey \o "' is missing",
                                       fieldPath, nestedKey, Undef, "undefined", <<>>, value)]
          ELSE NestedKeysCheck(value, fieldMetadata, i + 1, fieldPath)

\* A map that puts each new element in front of those before it
MapStepFront(acc, val) == <<val>> \o acc
\* Array.prototype.map: the value returned for an element takes the
\* element's position in the new array
MapStep(acc, val) == Append(acc, val)

\* A call of transform() pushes a frame, and its return or throw pops it
Enter(cache) ==
  [cache EXCEPT !.depth = @ + 1,
                !.peak = IF cache.depth + 1 > @ THEN cache.depth + 1 ELSE @]
Leave(r) == [r EXCEPT !.cache.depth = @ - 1]

RECURSIVE transform(_, _, _, _, _)
RECURSIVE TransformFrame(_, _, _, _, _)
RECURSIVE TransformPlain(_, _, _, _, _)
RECURSIVE GetPlainByCall(_, _, _, _, _)
RECURSIVE GetPlain(_, _, _, _, _)
RECURSIVE TransformItems(_, _, _, _, _, _, _)
RECURSIVE TransformFields(_, _, _, _, _, _, _)
RECURSIVE transformField(_, _, _, _, _)
RECURSIVE TransformElements(_, _, _, _, _, _, _)

\* transform(obj, filter, dtoName)
transform(m, obj0, filter, dtoName, cache) ==
  Leave(TransformFrame(m, obj0, filter, dtoName, Enter(cache)))

\* The body of transform
TransformFrame(m, obj0, filter, dtoName, cache) ==
  IF IsNullish(obj0) THEN Ok(Null, cache)
  ELSE IF obj0.t = "model" THEN GetPlain(m, obj0, filter, dtoName, cache)
  ELSE TransformPlain(m, obj0, filter, dtoName, cache)

\* An unwrapping that hands the plain form to a new call of transform
GetPlainByCall(m, obj0, filter, dtoName, cache) ==
  transform(m, obj0.p, filter, dtoName, cache)
\* obj = obj.get({ plain: true }): transform goes on with the plain form
GetPlain(m, obj0, filter, dtoName, cache) ==
  TransformPlain(m, obj0.p, filter, dtoName, cache)

\* transform from the Array.isArray test on
TransformPlain(m, obj, filter, dtoName, cache) ==
  IF IsArray(obj)
  THEN TransformItems(m, obj.a, 1, <<>>, filter, dtoName, cache)
  ELSE TransformFields(m, obj, filter, 1, InitialResult(obj), dtoName, cache)

\* obj.map(item => this.transform(item, filter, dtoName)), from item i on
TransformItems(m, items, i, acc, filter, dtoName, cache) ==
  IF i > Len(items) THEN Ok(Arr(acc), cache)
  ELSE LET r == transform(m, items[i], filter, dtoName, cache)
       IN IF r.ok
          THEN TransformItems(m, items, i + 1, MapStep(acc, r.val), filter, dtoName, r.cache)
          ELSE r

\* The for loop of transform over Object.entries(filter), from entry i on
TransformFields(m, obj, filter, i, res, dtoName, cache) ==
  IF i > Len(filter) THEN Ok(Obj(res), cache)
  ELSE LET value == filter[i]
           key == value.name
       IN IF ~HasOwn(obj, key)
          THEN IF MissingThrows(value)
               THEN Throw(TransformError("Required field '" \o key \o "' is missing",
                                         dtoName, key, Undef, "undefined", <<>>, obj), cache)
               ELSE TransformFields(m, obj, filter, i + 1, res, dtoName, cache)
          ELSE IF obj.o[key].t = "undefined"
          THEN IF UndefinedThrows(value)
               THEN Throw(TransformError("Required field '" \o key \o "' cannot be undefined",
                                         dtoName, key, Undef, "undefined", <<>>, obj), cache)
               ELSE TransformFields(m, obj, filter, i + 1, res, dtoName, cache)
          ELSE IF obj.o[key].t = "null"
          THEN IF NullAllowed(value)
               THEN TransformFields(m, obj, filter, i + 1, SetKey(res, key, Null), dtoName, cache)
               ELSE Throw(TransformError("Field '" \o key \o "' cannot be null",
                                         dtoName, key, Null, "undefined", <<>>, obj), cache)
          ELSE LET r == transformField(m, obj.o[key], value, dtoName \o "." \o key, cache)
               IN IF r.ok
                  THEN TransformFields(m, obj, filter, i + 1, SetKey(res, key, r.val),
                                       dtoName, r.cache)
                  ELSE r

\* An element check that lets a nullable field hold undefined elements
UndefinedElementThrowsUnlessNullable(item, fieldMetadata) ==
  item.t = "undefined" /\ ~fieldMetadata.nullable
\* transformField's array case: the condition under which an element throws
\* "Invalid value in array"
UndefinedElementThrows(item, fieldMetadata) == item.t = "undefined"

\* value.map((item, index) => ...) of transformField's array case, from
\* element i on
TransformElements(m, value, i, acc, fieldMetadata, fieldPath, cache) ==
  IF i > Len(value.a) THEN Ok(Arr(acc), cache)
  ELSE LET item == value.a[i]
       IN IF UndefinedElementThrows(item, fieldMetadata)
          THEN Throw(TransformError("Invalid value in array", IndexPath(fieldPath, i), "",
                                    item, "non-undefined", <<>>, value), cache)
          ELSE IF item.t = "null" /\ fieldMetadata.nullable
          THEN TransformElements(m, value, i + 1, MapStep(acc, Null), fieldMetadata, fieldPath, cache)
          ELSE IF fieldMetadata.typeCheck = 4
          THEN LET c2 == transformDtoFilter(m, cache, fieldMetadata.type.e.c)
                   r == transform(m, item, CacheGet(m, c2, fieldMetadata.type.e.c),
                                  IndexPath(fieldPath, i), c2)
               IN IF r.ok
                  THEN TransformElements(m, value, i + 1, MapStep(acc, r.val), fieldMetadata,
                                         fieldPath, r.cache)
                  ELSE r
          ELSE LET p == transformPrimitive(item, fieldMetadata, IndexPath(fieldPath, i))
               IN IF p.ok
                  THEN TransformElements(m, value, i + 1, MapStep(acc, p.val), fieldMetadata,
                                         fieldPath, cache)
                  ELSE Throw(p.err, cache)

\* transformField(value, fieldMetadata, fieldPath)
transformField(m, value, fieldMetadata, fieldPath, cache) ==
  LET notObject == Throw(TransformError("Field should be an object", fieldPath, "", value,
                                        "object", <<>>, value), cache)
  IN
  IF value.t = "undefined"
  THEN IF fieldMetadata.required
       THEN Throw(TransformError("Required field is missing", fieldPath, "", value,
                                 TypeName(m, fieldMetadata.type), <<>>, value), cache)
       ELSE Ok(Undef, cache)
  ELSE IF value.t = "null" /\ fieldMetadata.nullable THEN Ok(Null, cache)
  ELSE IF fieldMetadata.isNestedObject
  THEN IF TypeOf(value) # "object" \/ value.t = "null" THEN notObject
       ELSE LET transformedNested == transform(m, value, fieldMetadata.nestedFields,
                                               fieldPath, cache)
                checked == NestedKeysCheck(value, fieldMetadata, 1, fieldPath)
            IN IF ~transformedNested.ok THEN transformedNested
               ELSE IF ~checked.ok THEN Throw(checked.err, transformedNested.cache)
               ELSE transformedNested
  ELSE CASE fieldMetadata.typeCheck = 1 ->
              LET p == transformPrimitive(value, fieldMetadata, fieldPath)
              IN IF p.ok THEN Ok(p.val, cache) ELSE Throw(p.err, cache)
         [] fieldMetadata.typeCheck = 2 ->
              IF TypeOf(value) # "object" \/ value.t = "null" THEN notObject
              ELSE LET c2 == transformDtoFilter(m, cache, fieldMetadata.type.c)
                   IN transform(m, value, CacheGet(m, c2, fieldMetadata.type.c), fieldPath, c2)
         [] fieldMetadata.typeCheck \in {4, 16} ->
              IF ~IsArray(value)
              THEN Throw(TransformError("Field should be an array", fieldPath, "", value,
                                        "array", <<>>, value), cache)
              ELSE TransformElements(m, value, 1, <<>>, fieldMetadata, fieldPath, cache)
         [] fieldMetadata.typeCheck = 8 ->
              IF ~EnumIncludes(fieldMetadata.enum, value)
              THEN Throw(TransformError("Invalid enum value", fieldPath, "", value, "enum",
                                        fieldMetadata.enum, value), cache)
              ELSE Ok(value, cache)
         [] OTHER ->
              Throw(TransformError("Unexpected type for field", fieldPath, "", value,
                                   "undefined", <<>>, value), cache)

(***************************************************************************)
(* The declared classes and the inputs                                     *)
(*                                                                         *)
(* Two DTO classes.  Sub {street: String (required), zip?: Number,         *)
(* parent?: Sub | null} refers to itself.                                  *)
(* Dto {f, secret, id}: f is the field whose kind and flags vary, secret   *)
(* is a required String carrying @NoOut, id a required Number.  The inline *)
(* field map of a NestedStructure f declares the same fields as Sub.       *)
(***************************************************************************)
MaxCalls == 2
MaxLen == 2

Root == "Dto"

RawField(name, type, required, nullable) ==
  [name |-> name, type |-> type, required |-> required, nullable |-> nullable,
   hasEnum |-> FALSE, enum |-> <<>>]

RoleEnum == <<Str("admin"), Str("user")>>

SubFields == <<RawField("street", TString, TRUE, FALSE),
               RawField("zip", TNumber, FALSE, FALSE),
               RawField("parent", TClass("Sub"), FALSE, TRUE)>>

\* An inline field map that holds another inline field map
DeepFields == <<RawField("inner", TInline(SubFields), FALSE, FALSE),
                RawField("n", TNumber, FALSE, FALSE)>>

FieldKinds == {"number", "string", "enum", "class", "classArray", "primArray", "inline"}

KindType(kind) ==
  CASE kind = "number" -> TNumber
    [] kind = "string" -> TString
    [] kind = "enum" -> TString
    [] kind = "class" -> TClass("Sub")
    [] kind = "classArray" -> TArrayOf(TClass("Sub"))
    [] kind = "primArray" -> TArrayOf(TNumber)
    [] kind = "inline" -> TInline(SubFields)
    [] kind = "inline2" -> TInline(DeepFields)

\* The raw description of f
FieldF(kind, required, nullable) ==
  [name |-> "f", type |-> KindType(kind), required |-> required, nullable |-> nullable,
   hasEnum |-> (kind = "enum"), enum |-> IF kind = "enum" THEN RoleEnum ELSE <<>>]

ClassFlags == {"none", "NoCheck", "NoCheckPrimitives"}

MetaOf(kind, required, nullable, propNoCheck, classFlag) ==
  [c \in {"Dto", "Sub"} |->
     IF c = "Dto"
     THEN [name |-> "Dto",
           factory |-> <<FieldF(kind, required, nullable),
                         RawField("secret", TString, TRUE, FALSE),
                         RawField("id", TNumber, TRUE, FALSE)>>,
           noCheck |-> (classFlag = "NoCheck"),
           noCheckPrimitives |-> (classFlag = "NoCheckPrimitives"),
           noCheckProps |-> IF propNoCheck THEN {"f"} ELSE {},
           noOutProps |-> {"secret"}]
     ELSE [name |-> "Sub",
           factory |-> SubFields,
           noCheck |-> FALSE,
           noCheckPrimitives |-> FALSE,
           noCheckProps |-> {},
           noOutProps |-> {}]]

Metas ==
  {MetaOf(kind, required, nullable, propNoCheck, classFlag) :
     kind \in FieldKinds, required \in BOOLEAN, nullable \in BOOLEAN,
     propNoCheck \in BOOLEAN, classFlag \in ClassFlags}

\* Values of f.  SubExtra carries a key Sub does not declare, and SubDeep one
\* more inside its parent; SubCoerce a zip that needs coercion; SubBad lacks
\* the required street; SubFull holds every declared key.
SubGood == Obj([street |-> Str("Main")])
SubFull == Obj([street |-> Str("Main"), zip |-> Num("7"), parent |-> Null])
SubExtra == Obj([street |-> Str("Main"), zip |-> Num("7"), country |-> Str("US")])
SubCoerce == Obj([street |-> Str("Main"), zip |-> Str("7")])
SubBad == Obj([zip |-> Num("7")])
SubDeep == Obj([street |-> Str("Main"), country |-> Str("US"),
                parent |-> Obj([street |-> Str("Side"), country |-> Str("US")])])

ScalarVals == {Num("30"), Str("30"), Str("abc"), Str("admin"), Bool("true")}
RecordVals == {SubGood, SubFull, SubExtra, SubCoerce, SubBad, SubDeep, Model(SubExtra)}
ElementVals == {Num("30"), Str("abc"), Null, Undef, SubExtra}

RECURSIVE SeqsUpTo(_, _)
\* The sequences over S of length at most n
SeqsUpTo(S, n) ==
  IF n = 0 THEN {<<>>}
  ELSE LET shorter == SeqsUpTo(S, n - 1)
       IN shorter \cup {Append(q, x) : q \in {q \in shorter : Len(q) = n - 1}, x \in S}

ArrayVals == {Arr(q) : q \in SeqsUpTo(ElementVals, MaxLen)}

\* Absent marks a key the input record does not own; it is not a value.
Absent == [t |-> "absent"]
FVals == ScalarVals \cup RecordVals \cup ArrayVals \cup {Null, Undef, Absent}
IdVals == {Num("1"), Str("x")}

\* The input record {f, id} and, when decorated, an unknown key and a null
\* under the @NoOut key
RootObj(fv, idv, decorated) ==
  Obj([k \in ({"id"} \cup (IF fv = Absent THEN {} ELSE {"f"})
              \cup (IF decorated THEN {"extra", "secret"} ELSE {})) |->
         CASE k = "f" -> fv
           [] k = "id" -> idv
           [] k = "extra" -> Str("x")
           [] k = "secret" -> Null])

RootObjs == {RootObj(fv, idv, d) : fv \in FVals, idv \in IdVals, d \in BOOLEAN}

\* What a route declared with an array response type is given: sequences of
\* input records, and values that are no sequence
ArrayRouteInputs ==
  {Null, Undef, Num("30"), Arr(<<>>),
   Arr(<<RootObj(SubExtra, Num("1"), TRUE), RootObj(Str("30"), Num("2"), FALSE)>>),
   Arr(<<RootObj(Num("30"), Num("1"), FALSE), Null>>),
   Model(RootObj(SubExtra, Num("1"), TRUE))}

Inputs == RootObjs \cup ArrayRouteInputs

(***************************************************************************)
(* The interceptor around the engine: the route's @ResponseType options,   *)
(* the interceptor's own defaults, the response envelope and the           *)
(* conversion of errors.                                                   *)
(*                                                                         *)
(* An option that is not given is undefined.  options is what the route    *)
(* passes to @ResponseType (via "ResponseType"), what a mocked reflector   *)
(* returns as the metadata (via "reflector", as the tests' setup does), or *)
(* NoDecorator; config is what the interceptor is constructed with.  Errors other than TransformError are              *)
(* [name, message]; a BadRequestException is [name, response, instance],   *)
(* where instance tells the objects apart: "upstream" is the one the       *)
(* route handler raised, "handled" one that handleError constructed.  A    *)
(* thrown value that is no Error has the name "".                          *)
(***************************************************************************)
\* A destructuring default (x = d): taken for undefined only
DefaultTo(v, d) == IF v.t = "undefined" THEN d ELSE v
\* v ?? d
Coalesce(v, d) == IF IsNullish(v) THEN d ELSE v
\* !v
Not(v) == JsBoolean(v) = Bool("false")

\* A route without @ResponseType
NoDecorator == [via |-> "none"]

\* ResponseType(options): the metadata the decorator stores under
\* RESPONSE_TYPE_KEY (the response type itself is Root and isArray)
ResponseType(opts) ==
  [noTransform |-> opts.noTransform, response |-> opts.response,
   responseKey |-> DefaultTo(opts.responseKey, Str("data")), dataKey |-> opts.dataKey]

\* this.reflector.getAllAndOverride(RESPONSE_TYPE_KEY, ...)
getAllAndOverride(opts) ==
  IF opts.via = "ResponseType" THEN ResponseType(opts)
  ELSE [noTransform |-> opts.noTransform, response |-> opts.response,
        responseKey |-> opts.responseKey, dataKey |-> opts.dataKey]

\* The constructor of FastTransformInterceptor
Constructed(cfg) ==
  [debug |-> cfg.debug,
   defaultResponse |-> Coalesce(cfg.defaultResponse, Null),
   defaultResponseKey |-> Coalesce(cfg.defaultResponseKey, Str("data")),
   defaultDataKey |-> Coalesce(cfg.defaultDataKey, Null)]

\* intercept: the destructuring of responseTypeMetadata with the
\* interceptor's defaults
Destructured(responseTypeMetadata, self) ==
  [noTransform |-> responseTypeMetadata.noTransform,
   response |-> DefaultTo(responseTypeMetadata.response, self.defaultResponse),
   responseKey |-> DefaultTo(responseTypeMetadata.responseKey, self.defaultResponseKey),
   dataKey |-> DefaultTo(responseTypeMetadata.dataKey, self.defaultDataKey)]

\* dataToResponse(data, response, responseKey)
dataToResponse(d, response, responseKey) ==
  IF Not(response) THEN d ELSE Obj(SetKey(response.o, responseKey.s, d))

ErrorOf(name, message) == [name |-> name, message |-> message]

\* getDataObject(data, dataKey): [thrown, val]; reading a key of null or
\* undefined is a TypeError
getDataObject(d, dataKey) ==
  IF Not(dataKey) THEN [thrown |-> FALSE, val |-> d]
  ELSE IF IsNullish(d)
  THEN [thrown |-> TRUE,
        val |-> ErrorOf("TypeError", "Cannot read properties of " \o d.t
                                     \o " (reading '" \o dataKey.s \o "')")]
  ELSE [thrown |-> FALSE,
        val |-> IF HasOwn(d, dataKey.s) THEN d.o[dataKey.s] ELSE Undef]

BadRequestException(response, instance) ==
  [name |-> "BadRequestException", response |-> response, instance |-> instance]

RECURSIVE HasBigInt(_)
\* JSON.stringify throws a TypeError on a bigint anywhere in the value
HasBigInt(v) ==
  CASE v.t = "bigint" -> TRUE
    [] v.t = "object" -> \E k \in DOMAIN v.o : HasBigInt(v.o[k])
    [] v.t = "array" -> \E i \in 1..Len(v.a) : HasBigInt(v.a[i])
    [] v.t = "model" -> HasBigInt(v.p)
    [] OTHER -> FALSE

\* JSON.stringify(v, ...) is undefined: nothing to parse
StringifiesToUndefined(v) == v.t \in {"undefined", "symbol"}

RECURSIVE JsonClone(_)
\* JSON.parse(JSON.stringify(v, replacer, 2)) with handleError's replacer,
\* which copies every object, arrays too, into a plain record of its keys:
\* an array comes back as a record keyed by its indices, a key that holds
\* undefined is dropped, NaN becomes null, a date its toJSON string, and an
\* ORM instance its plain form.
JsonClone(v) ==
  CASE v.t = "object" ->
         Obj([k \in {k \in DOMAIN v.o : ~StringifiesToUndefined(v.o[k])} |-> JsonClone(v.o[k])])
    [] v.t = "array" ->
         Obj([k \in {ToString(i - 1) : i \in {j \in 1..Len(v.a) : ~StringifiesToUndefined(v.a[j])}} |->
                JsonClone(v.a[CHOOSE i \in 1..Len(v.a) : ToString(i - 1) = k])])
    [] v.t = "model" -> JsonClone(v.p)
    [] v.t = "number" -> IF v.s = "NaN" THEN Null ELSE v
    [] v.t = "date" -> IF v.s = "NaN" THEN Null ELSE Str(JsString(v))
    [] OTHER -> v

\* error instanceof BadRequestException
IsBadRequest(error) == error.name = "BadRequestException"

\* handleError(error): [thrown, val], val being the BadRequestException it
\* returns or, when the debug serialisation of fullObject fails, the error
\* that leaves handleError instead.
handleError(error, debug) ==
  IF IsBadRequest(error) THEN [thrown |-> FALSE, val |-> error]
  ELSE IF error.name = "TransformError"
  THEN IF ~debug
       THEN [thrown |-> FALSE,
             val |-> BadRequestException([message |-> "Validation error: " \o error.message,
                                          debug |-> Null], "handled")]
       ELSE IF HasBigInt(error.fullObject)
       THEN [thrown |-> TRUE,
             val |-> ErrorOf("TypeError", "Do not know how to serialize a BigInt")]
       ELSE IF StringifiesToUndefined(error.fullObject)
       THEN [thrown |-> TRUE,
             val |-> ErrorOf("SyntaxError", "\"undefined\" is not valid JSON")]
       ELSE [thrown |-> FALSE,
             val |-> BadRequestException(
                       [message |-> "Validation error in " \o error.dtoName \o ": " \o error.message,
                        debug |-> [dtoName |-> error.dtoName,
                                   fieldName |-> error.fieldName,
                                   receivedValue |-> error.receivedValue,
                                   expectedType |-> error.expectedType,
                                   expectedValues |-> error.expectedValues,
                                   fullObject |-> JsonClone(error.fullObject)]], "handled")]
  ELSE IF error.name # ""
  THEN [thrown |-> FALSE,
        val |-> BadRequestException(
                  [message |-> "Unexpected error: " \o error.message,
                   debug |-> IF debug THEN [name |-> error.name] ELSE Null], "handled")]
  ELSE [thrown |-> FALSE,
        val |-> BadRequestException(
                  [message |-> "An error occurred while processing the request.",
                   debug |-> Null], "handled")]

(***************************************************************************)
(* The state machine                                                       *)
(*                                                                         *)
(* meta: the annotations of the classes; isArray: whether the route's      *)
(* response type is [Dto]; options, config: the route's @ResponseType      *)
(* options and the interceptor's constructor options; upstream: the error  *)
(* the route handler raises, or NoError; data: what the handler returns    *)
(* otherwise.  dtoCache: the module-level schema cache; factoryCalls: how  *)
(* often each class name's metadata factory has been invoked; pending: the *)
(* request intercept() has set up whose handler has not answered yet, with *)
(* its response class and the root filter it resolved; result: what the try block of the map      *)
(* callback returned or threw in the last answer, before the envelope and  *)
(* the error conversion (none when it did not run); delivered: what the    *)
(* observable intercept() returned then delivered; ncalls: the calls of    *)
(* intercept() so far.                                                     *)
(***************************************************************************)
EmptyCache == [k \in {} |-> <<>>]
NoCalls == [c \in {"Dto", "Sub"} |-> 0]
NoError == [name |-> "none"]
NoPending == [state |-> "none"]
NoResult == [state |-> "none"]
Returned(val) == [state |-> "returned", val |-> val]
Thrown(err) == [state |-> "thrown", err |-> err]
NoDelivery == [state |-> "none"]
Emitted(val) == [state |-> "value", val |-> val]
Failed(err) == [state |-> "error", err |-> err]

\* The options and configuration of the tests' setupInterceptor: only the
\* response type is given
PlainOptions ==
  [via |-> "reflector", noTransform |-> FALSE, response |-> Undef, responseKey |-> Undef,
   dataKey |-> Undef]
PlainConfig ==
  [debug |-> FALSE, defaultResponse |-> Undef, defaultResponseKey |-> Undef,
   defaultDataKey |-> Undef]

Init ==
  /\ meta \in Metas
  /\ isArray \in BOOLEAN
  /\ data \in IF isArray THEN ArrayRouteInputs ELSE Inputs
  /\ options = PlainOptions
  /\ config = PlainConfig
  /\ upstream = NoError
  /\ dtoCache = EmptyCache
  /\ factoryCalls = NoCalls
  /\ pending = NoPending
  /\ result = NoResult
  /\ delivered = NoDelivery
  /\ ncalls = 0

\* The cache and the invocation counts as the operators pass them along
Mem == [dto |-> dtoCache, calls |-> factoryCalls, depth |-> 0, peak |-> 0]

\* The route's settings: the stored metadata destructured with the defaults
Settings(opts, cfg) == Destructured(getAllAndOverride(opts), Constructed(cfg))

\* The try block of the map callback: the data object is taken out, a
\* non-array under an array response type is refused, and the data is
\* transformed with the root filter intercept() resolved.
TryBlock(m, cache, dtoFilter, arrayType, st, d) ==
  LET got == getDataObject(d, st.dataKey)
      dataObj == got.val
  IN IF got.thrown THEN Throw(got.val, cache)
     ELSE IF arrayType /\ ~IsArray(dataObj)
     THEN Throw(TransformError("Expected an array, but received " \o TypeOf(dataObj),
                               ClassName(m, Root), st.responseKey.s, dataObj, "array", <<>>, d),
                cache)
     ELSE transform(m, dataObj, dtoFilter, ClassName(m, Root), cache)

\* intercept() resolving the root class, then the try block on d
Outcome(m, cache, arrayType, st, d) ==
  LET c1 == transformDtoFilter(m, cache, Root)
  IN TryBlock(m, c1, CacheGet(m, c1, Root), arrayType, st, d)

\* catch (error) { throw this.handleError(error) } followed by catchError:
\* the error the observable delivers for an error thrown in the map callback
Caught(error, debug) ==
  LET first == handleError(error, debug)
  IN handleError(first.val, debug).val

\* The map callback's return or throw for the try block's outcome r:
\* [result, delivered, cache]
Mapped(r, st, debug) ==
  [result |-> IF r.ok THEN Returned(r.val) ELSE Thrown(r.err),
   delivered |-> IF r.ok
                 THEN Emitted(dataToResponse(r.val, st.response, st.responseKey))
                 ELSE Failed(Caught(r.err, debug)),
   cache |-> r.cache]

\* The pipe of a decorated route with the settings st
PipedWith(m, cache, dtoFilter, arrayType, st, debug, up, d) ==
  IF st.noTransform
  THEN [result |-> NoResult,
        delivered |-> IF up = NoError
                      THEN Emitted(dataToResponse(d, st.response, st.responseKey))
                      ELSE Failed(up),
        cache |-> cache]
  ELSE IF up # NoError
  THEN [result |-> NoResult,
        delivered |-> Failed(handleError(up, debug).val),
        cache |-> cache]
  ELSE Mapped(TryBlock(m, cache, dtoFilter, arrayType, st, d), st, debug)

\* What the observable returned by intercept() does with the handler's
\* answer: [result, delivered, cache]
Piped(m, cache, dtoFilter, arrayType, opts, cfg, up, d) ==
  IF opts.via = "none"
  THEN [result |-> NoResult,
        delivered |-> IF up = NoError THEN Emitted(d) ELSE Failed(up),
        cache |-> cache]
  ELSE PipedWith(m, cache, dtoFilter, arrayType, Settings(opts, cfg),
                 Constructed(cfg).debug, up, d)

\* Whether intercept() resolves the root class for this route
Transforming == options.via # "none" /\ ~options.noTransform

\* The cache after intercept() has run up to the pipe
Resolved == IF Transforming THEN transformDtoFilter(meta, Mem, Root) ELSE Mem
\* const dtoFilter = this.transformDtoFilter(dtoType)
RootFilter(cache) == IF Transforming THEN CacheGet(meta, cache, Root) ELSE <<>>

\* A transform whose result is the input object itself: what it writes to
\* the result is written to the handler's value
InputAfterShared(d, p) ==
  IF p.result.state = "returned" /\ d.t = "object" THEN p.result.val ELSE d
\* The handler's value after the pipe p has run on it: transform writes to
\* the new object result and to the new array of map, never to obj
InputAfter(d, p) == d

\* intercept() on a route whose handler answers at once (of(data)): the root
\* class is resolved and the answer is piped in the same step.
Intercept ==
  /\ ncalls < MaxCalls
  /\ \E p \in {Piped(meta, Resolved, RootFilter(Resolved), isArray, options, config, upstream, data)} :
        /\ result' = p.result
        /\ delivered' = p.delivered
        /\ dtoCache' = p.cache.dto
        /\ factoryCalls' = p.cache.calls
        /\ data' = InputAfter(data, p)
  /\ ncalls' = ncalls + 1
  /\ UNCHANGED <<meta, isArray, options, config, upstream, pending>>

\* intercept() on a route whose handler answers later: the root class is
\* resolved now and the filter stays with the request.
Begin ==
  /\ ncalls < MaxCalls
  /\ pending = NoPending
  /\ pending' = [state |-> "waiting", dtoType |-> meta[Root],
                 dtoFilter |-> RootFilter(Resolved)]
  /\ dtoCache' = Resolved.dto
  /\ factoryCalls' = Resolved.calls
  /\ ncalls' = ncalls + 1
  /\ UNCHANGED <<meta, isArray, options, config, upstream, data, result, delivered>>

\* The handler of the pending request answers: the map callback (or
\* catchError) runs with the filter resolved by Begin.
Emit ==
  /\ pending # NoPending
  /\ \E p \in {Piped(meta, Mem, pending.dtoFilter, isArray, options, config, upstream, data)} :
        /\ result' = p.result
        /\ delivered' = p.delivered
        /\ dtoCache' = p.cache.dto
        /\ factoryCalls' = p.cache.calls
        /\ data' = InputAfter(data, p)
  /\ pending' = NoPending
  /\ UNCHANGED <<meta, isArray, options, config, upstream, ncalls>>

\* A clearCache that keeps the descriptor of the root class
ClearedButRoot(cache) == [n \in DOMAIN cache \cap {Root} |-> cache[n]]
\* dtoCache.clear()
Cleared(cache) == EmptyCache

\* FastTransformInterceptor.clearCache()
ClearCache ==
  /\ dtoCache' = Cleared(dtoCache)
  /\ UNCHANGED <<meta, factoryCalls, isArray, options, config, upstream, data, pending, result,
                 delivered, ncalls>>

Next == Intercept \/ ClearCache

Spec == Init /\ [][Next]_vars

(***************************************************************************)
(* Properties                                                              *)
(***************************************************************************)
Ret == result.state = "returned"
Thr == result.state = "thrown"

\* The raw description and the descriptor of Dto's first field, f, and of id
FRaw == meta[Root].factory[1]
FDesc == BuildFilter(meta, Root)[1]
IdDesc == LET flt == BuildFilter(meta, Root) IN flt[Len(flt)]
FIsInline == FRaw.type.k = "inline"
FIsScalarOf(ctor) == ~FRaw.hasEnum /\ FRaw.type = ctor

\* The call was given one input record (not a sequence, not null)
OnRecord == result.state # "none" /\ data.t = "object"
FOwned == OnRecord /\ "f" \in DOMAIN data.o
FAbsent == OnRecord /\ "f" \notin DOMAIN data.o
FVal == data.o.f
FDefined == FOwned /\ ~IsNullish(FVal)

\* The error, if any, was raised for id, the field after f
ErrAboutId == result.err.dtoName = "Dto.id" \/ (result.err.dtoName = "Dto" /\ result.err.fieldName = "id")
\* No error was raised for f: the loop went on to the fields after it
PassedF == Thr => ErrAboutId
\* id's value passes its own check
IdPasses == IdDesc.noCheck \/ data.o.id.t = "number"
\* f was passed, and a returned record carries v under f
YieldsF(v) == PassedF /\ (Ret => ("f" \in DOMAIN result.val.o /\ result.val.o.f = v))
\* f was passed, and a returned record has no key f
OmitsF == PassedF /\ (Ret => "f" \notin DOMAIN result.val.o)
\* The error raised for f itself
FError(message) ==
  Thr /\ result.err.message = message /\ result.err.dtoName = "Dto" /\ result.err.fieldName = "f"

RECURSIVE DeclaredOnly(_, _, _)
\* Every record in v has only keys that the raw field list governing its
\* level declares and that are not @NoOut, at every depth.
DeclaredOnly(v, rawFields, cls) ==
  CASE v.t = "array" -> \A i \in 1..Len(v.a) : DeclaredOnly(v.a[i], rawFields, cls)
    [] v.t = "object" ->
         /\ DOMAIN v.o \subseteq
              {rawFields[i].name : i \in {j \in 1..Len(rawFields) :
                                            ~PropertyNoOut(meta, cls, rawFields[j].name)}}
         /\ \A i \in 1..Len(rawFields) :
              LET raw == rawFields[i]
              IN (raw.name \in DOMAIN v.o /\ ~raw.hasEnum) =>
                   CASE raw.type.k = "class" ->
                          DeclaredOnly(v.o[raw.name], meta[raw.type.c].factory, raw.type.c)
                     [] raw.type.k = "array" /\ raw.type.e.k = "class" ->
                          DeclaredOnly(v.o[raw.name], meta[raw.type.e.c].factory, raw.type.e.c)
                     [] raw.type.k = "inline" ->
                          DeclaredOnly(v.o[raw.name], raw.type.fields, "Object")
                     [] OTHER -> TRUE
    [] OTHER -> TRUE

\* C1: whenever transform returns, every record of the output (the root, each
\* nested Record or NestedStructure value, each RecordArray element) has only
\* keys declared and not output-excluded in the schema of its level.
C1_Filtering == Ret => DeclaredOnly(result.val, meta[Root].factory, Root)

\* C1 witness: an input with an unknown key at the root, inside the Record f
\* and inside f's parent was transformed, and all three were dropped.
C1_Witness ==
  /\ Ret /\ FOwned /\ FVal = SubDeep /\ FRaw.type = TClass("Sub")
  /\ "extra" \in DOMAIN data.o
  /\ DOMAIN result.val.o = {"f", "id"}
  /\ DOMAIN result.val.o.f.o = {"street", "parent"}
  /\ DOMAIN result.val.o.f.o.parent.o = {"street"}

\* An error raised for the @NoOut key secret
ErrAboutSecret ==
  \/ result.err.dtoName = "Dto.secret"
  \/ (result.err.dtoName = "Dto" /\ result.err.fieldName = "secret")

RECURSIVE NoSecret(_)
NoSecret(v) ==
  CASE v.t = "array" -> \A i \in 1..Len(v.a) : NoSecret(v.a[i])
    [] v.t = "object" -> "secret" \notin DOMAIN v.o
    [] OTHER -> TRUE

\* C2: the @NoOut field secret has no descriptor in the cached schema, never
\* appears in an output record, and no error is ever raised for it, although
\* every input either lacks it (it is required) or holds null under it (it is
\* not nullable).
C2_NoOut ==
  /\ "Dto" \in DOMAIN dtoCache =>
       \A i \in 1..Len(dtoCache["Dto"]) : dtoCache["Dto"][i].name # "secret"
  /\ Ret => NoSecret(result.val)
  /\ Thr => ~ErrAboutSecret

\* C2 witness: a call whose input holds null under secret returned a record.
C2_Witness ==
  /\ Ret /\ OnRecord /\ "secret" \in DOMAIN data.o /\ data.o.secret = Null
  /\ result.val.t = "object" /\ "id" \in DOMAIN result.val.o

C4_Undefined ==
  (FOwned /\ FVal = Undef) =>
    /\ (FRaw.required /\ ~FDesc.noCheck) => FError("Required field 'f' cannot be undefined")
    /\ ~FRaw.required => OmitsF

\* C4 witness: a required, nullable Record field held undefined and the call
\* raised the cannot-be-undefined error for it.
C4_Witness ==
  /\ FOwned /\ FVal = Undef /\ FRaw.required /\ FRaw.nullable /\ ~FDesc.noCheck
  /\ FRaw.type = TClass("Sub")
  /\ FError("Required field 'f' cannot be undefined")

\* C5: for a key that holds null, the output carries null under it when the
\* field is nullable or skip-validation, and "Field 'f' cannot be null" is
\* raised otherwise, whatever the field's kind and required flag.
C5_Null ==
  (FOwned /\ FVal = Null) =>
    IF FRaw.nullable \/ FDesc.noCheck
    THEN YieldsF(Null)
    ELSE FError("Field 'f' cannot be null") /\ result.err.receivedValue = Null

\* C5 witness: a nullable required RecordArray field held null and the
\* returned record carries null under it.
C5_Witness ==
  /\ FOwned /\ FVal = Null /\ FRaw.nullable /\ FRaw.required /\ ~FDesc.noCheck
  /\ FRaw.type = TArrayOf(TClass("Sub"))
  /\ Ret /\ result.val.o.f = Null

\* The wrong-scalar-type error raised for f
FWrongType(expectedType) ==
  /\ Thr /\ result.err.message = "Field should be a " \o expectedType
  /\ result.err.dtoName = "Dto.f" /\ result.err.expectedType = expectedType
  /\ result.err.receivedValue = FVal

FIsArrayOfScalar == ~FRaw.hasEnum /\ FRaw.type.k = "array" /\ FRaw.type.e.k = "ctor"
FIsArrayOfClass == ~FRaw.hasEnum /\ FRaw.type.k = "array" /\ FRaw.type.e.k = "class"
FIsRecord == ~FRaw.hasEnum /\ FRaw.type.k = "class"
FIsScalar == ~FRaw.hasEnum /\ FRaw.type.k = "ctor"
FInEnum == \E i \in 1..Len(FRaw.enum) : FRaw.enum[i] = FVal

\* C7: a skip-validation field accepts any value and returns it unchanged: a
\* defined value as it is, null as null, and undefined as a key that holds
\* undefined.
C7_SkipValidation == (FOwned /\ FDesc.noCheck) => YieldsF(FVal)

\* C8: a skip-validation field of kind Record, RecordArray, ScalarArray or
\* NestedStructure passes a defined non-null value through verbatim: no
\* not-an-object or not-an-array error, no key dropped, nothing coerced.
C8_Verbatim ==
  (FDefined /\ FDesc.noCheck /\ (FIsRecord \/ FIsArrayOfClass \/ FIsArrayOfScalar \/ FIsInline)) =>
    YieldsF(FVal)

\* C9: a skip-validation Enum field returns a defined non-null value that is
\* no member of the enum unchanged, with no error.
C9_EnumSkip ==
  (FDefined /\ FDesc.noCheck /\ FRaw.hasEnum /\ ~FInEnum) => YieldsF(FVal)

\* C10: in a @NoCheckPrimitives class a Scalar or ScalarArray field has
\* skip-validation forced true and its value is passed through unchecked and
\* uncoerced, while a Record, RecordArray, Enum or NestedStructure field of
\* the class keeps the skip-validation flag it was declared with.
C10_NoCheckPrimitives ==
  meta[Root].noCheckPrimitives =>
    /\ (FIsScalar \/ FIsArrayOfScalar) => FDesc.noCheck
    /\ (FIsRecord \/ FIsArrayOfClass \/ FRaw.hasEnum \/ FIsInline) =>
         (FDesc.noCheck <=> "f" \in meta[Root].noCheckProps)
    /\ (FDefined /\ (FIsScalar \/ FIsArrayOfScalar)) => YieldsF(FVal)

(***************************************************************************)
(* Flag inheritance: the scenario in which both Dto and the class it       *)
(* refers to carry class flags, and f is an inline field map (one or two   *)
(* levels deep), a Record or a RecordArray.                                *)
(***************************************************************************)
\* The annotations m with Sub carrying the class flag subFlag
WithSubFlag(m, subFlag) ==
  [m EXCEPT !["Sub"].noCheck = (subFlag = "NoCheck"),
            !["Sub"].noCheckPrimitives = (subFlag = "NoCheckPrimitives")]

NestedKinds == {"inline", "inline2", "class", "classArray"}

NestedMetas ==
  {WithSubFlag(MetaOf(kind, required, FALSE, FALSE, classFlag), subFlag) :
     kind \in NestedKinds, required \in BOOLEAN,
     classFlag \in ClassFlags, subFlag \in ClassFlags}

\* Records whose scalars have the wrong type: a street that String() can
\* coerce and a zip that Number() cannot
SubWrong == Obj([street |-> Num("30"), zip |-> Str("abc")])
SubParentWrong == Obj([street |-> Str("Main"), parent |-> SubWrong])
DeepGood == Obj([inner |-> SubGood, n |-> Num("7")])
DeepWrong == Obj([inner |-> SubWrong, n |-> Str("abc")])
DeepParentWrong == Obj([inner |-> SubParentWrong, n |-> Str("abc")])

NestedVals ==
  {SubGood, SubCoerce, SubWrong, SubParentWrong, DeepGood, DeepWrong, DeepParentWrong,
   Arr(<<SubWrong>>), Arr(<<SubGood, SubWrong>>)}

NestedRootObjs == {RootObj(fv, Num("1"), FALSE) : fv \in NestedVals}

InitNested ==
  /\ meta \in NestedMetas
  /\ isArray \in BOOLEAN
  /\ data \in IF isArray THEN {Arr(<<o>>) : o \in NestedRootObjs} ELSE NestedRootObjs
  /\ options = PlainOptions
  /\ config = PlainConfig
  /\ upstream = NoError
  /\ dtoCache = EmptyCache
  /\ factoryCalls = NoCalls
  /\ pending = NoPending
  /\ result = NoResult
  /\ delivered = NoDelivery
  /\ ncalls = 0

SpecNested == InitNested /\ [][Next]_vars

RECURSIVE ScalarsSkip(_, _)
\* Every Scalar and ScalarArray descriptor of the filter, and of the inline
\* field maps inside it at every depth, has noCheck = expect.
ScalarsSkip(filter, expect) ==
  \A i \in 1..Len(filter) :
    /\ (filter[i].isPrimitive \/ filter[i].isArrayOfPrimitive) => (filter[i].noCheck = expect)
    /\ filter[i].isNestedObject => ScalarsSkip(filter[i].nestedFields, expect)

\* Whether the class's own flags make its scalar fields skip their check
OwnSkip(cls) == meta[cls].noCheck \/ meta[cls].noCheckPrimitives

\* The Record under f reached through the top-level array or the record
RootRec == IF data.t = "array" THEN data.a[1] ELSE data
OutRec == IF result.val.t = "array" THEN result.val.a[1] ELSE result.val

\* C11: the skip-scalar-checks flag of a class reaches the scalar fields of
\* its inline field maps at every depth, and the schema of a class referenced
\* through a Record or RecordArray field follows that class's own flags only.
\* In the cache: all scalar descriptors below Dto skip exactly when Dto's own
\* flags say so, and all below Sub exactly when Sub's say so.  In a transform:
\* wrongly typed scalars two inline levels deep return unchanged under Dto's
\* flag, and wrongly typed scalars of a referenced Sub are checked (zip "abc"
\* is refused) unless Sub itself carries a flag, whatever Dto carries.
C11_Inheritance ==
  /\ "Dto" \in DOMAIN dtoCache => ScalarsSkip(dtoCache["Dto"], OwnSkip("Dto"))
  /\ "Sub" \in DOMAIN dtoCache => ScalarsSkip(dtoCache["Sub"], OwnSkip("Sub"))
  /\ (result.state # "none" /\ FRaw.type = TInline(DeepFields) /\ RootRec.o.f = DeepWrong) =>
       IF OwnSkip("Dto")
       THEN Ret /\ OutRec.o.f = DeepWrong
       ELSE Thr /\ result.err.message = "Field should be a number"
                /\ result.err.receivedValue = Str("abc")
  /\ (result.state # "none" /\ FRaw.type = TInline(DeepFields) /\ RootRec.o.f = DeepParentWrong
        /\ meta[Root].noCheckPrimitives) =>
       IF OwnSkip("Sub")
       THEN Ret /\ OutRec.o.f = DeepParentWrong
       ELSE Thr /\ result.err.message = "Field should be a number"
                /\ result.err.receivedValue = Str("abc")
  /\ (result.state # "none" /\ FRaw.type = TClass("Sub") /\ RootRec.o.f = SubWrong) =>
       IF OwnSkip("Sub")
       THEN Ret /\ OutRec.o.f = SubWrong
       ELSE Thr /\ result.err.message = "Field should be a number"
                /\ result.err.receivedValue = Str("abc")

\* C11 witness: Dto carries @NoCheckPrimitives and Sub no flag; the scalars
\* two inline levels below f came back unchanged, while the Sub referenced
\* from inside the same inline map had its street coerced to a string.
C11_Witness ==
  /\ meta[Root].noCheckPrimitives /\ ~OwnSkip("Sub")
  /\ FRaw.type = TInline(DeepFields) /\ data = RootObj(DeepParentWrong, Num("1"), FALSE)
  /\ Thr /\ result.err.message = "Field should be a number"
  /\ result.err.dtoName = "Dto.f.inner.parent.zip"
  /\ ~ScalarsSkip(dtoCache["Sub"], TRUE) /\ ScalarsSkip(dtoCache["Dto"], TRUE)

\* C12: an Enum field that is not skip-validation returns a value that is one
\* of the declared enum values unchanged, and raises "Invalid enum value" for
\* every other defined non-null value; the error carries all the allowed
\* values and the value received.
C12_Enum ==
  (FDefined /\ FRaw.hasEnum /\ ~FDesc.noCheck) =>
    IF FInEnum
    THEN YieldsF(FVal)
    ELSE /\ Thr /\ result.err.message = "Invalid enum value"
         /\ result.err.dtoName = "Dto.f"
         /\ result.err.expectedType = "enum"
         /\ result.err.expectedValues = FRaw.enum
         /\ result.err.receivedValue = FVal

\* C12 witness: an Enum field was given a string outside the enum and the
\* error lists both allowed values.
C12_Witness ==
  /\ FDefined /\ FRaw.hasEnum /\ ~FDesc.noCheck /\ FVal = Str("abc")
  /\ Thr /\ result.err.message = "Invalid enum value"
  /\ result.err.expectedValues = <<Str("admin"), Str("user")>>

\* The result of one more pass of the returned value through the same route
\* with the same cached schema
Again == Outcome(meta, Mem, isArray, Settings(options, config), result.val)

RECURSIVE Conforms(_, _)
\* v is a plain record that owns exactly the keys of the filter, every one
\* holding a value of the declared kind: a scalar of the expected type, a
\* member of the enum, a conformant record, a sequence of these, or null
\* under a nullable field.
Conforms(v, filter) ==
  /\ v.t = "object"
  /\ DOMAIN v.o = {filter[i].name : i \in 1..Len(filter)}
  /\ \A i \in 1..Len(filter) :
       LET fm == filter[i]
           x == v.o[fm.name]
       IN CASE x.t = "null" -> fm.nullable
            [] fm.typeCheck = 1 -> validatePrimitiveType(x, fm.expectedType)
            [] fm.typeCheck = 2 -> Conforms(x, BuildFilter(meta, fm.type.c))
            [] fm.typeCheck = 4 ->
                 /\ x.t = "array"
                 /\ \A j \in 1..Len(x.a) : Conforms(x.a[j], BuildFilter(meta, fm.type.e.c))
            [] fm.typeCheck = 8 -> EnumIncludes(fm.enum, x)
            [] fm.typeCheck = 16 ->
                 /\ x.t = "array"
                 /\ \A j \in 1..Len(x.a) : validatePrimitiveType(x.a[j], fm.expectedType)
            [] fm.typeCheck = 32 -> Conforms(x, fm.nestedFields)
            [] OTHER -> FALSE

\* The input is conformant: a record, or on an array route a sequence of
\* records, each conformant to Dto's schema
ConformantInput ==
  IF data.t = "array"
  THEN \A i \in 1..Len(data.a) : Conforms(data.a[i], BuildFilter(meta, Root))
  ELSE Conforms(data, BuildFilter(meta, Root))

\* C13: whenever a transform returns, transforming the returned value again
\* with the same schema returns too, and returns an equal value; and a
\* conformant input is returned as an equal value.
C13_Idempotent ==
  /\ Ret => (Again.ok /\ Again.val = result.val)
  /\ (result.state # "none" /\ ConformantInput) => (Ret /\ result.val = data)

\* The transform of one element under the schema of class cls
ElementOut(v, cls, path) == transform(meta, v, BuildFilter(meta, cls), path, Mem)

\* out is a sequence as long as in, and holds at every index the transform of
\* in's element at that index under the schema of cls
Elementwise(in, out, cls, path(_)) ==
  /\ out.t = "array"
  /\ Len(out.a) = Len(in.a)
  /\ \A i \in 1..Len(in.a) :
       ElementOut(in.a[i], cls, path(i)).ok /\ out.a[i] = ElementOut(in.a[i], cls, path(i)).val

FPath(i) == IndexPath("Dto.f", i)
RootPath(i) == "Dto"

\* C14: a RecordArray field that is transformed with success yields a
\* sequence of the input's length holding, index by index, the transform of
\* the input's element under the element schema; so does a top-level sequence
\* of records.
C14_RecordArray ==
  /\ (FDefined /\ FIsArrayOfClass /\ FVal.t = "array" /\ Ret) =>
       Elementwise(FVal, result.val.o.f, "Sub", FPath)
  /\ (Ret /\ data.t = "array") => Elementwise(data, result.val, Root, RootPath)

\* C14 witness: a RecordArray of a null and a record with an unknown key came
\* back as a sequence of null and the filtered record, in that order.
C14_Witness ==
  /\ FDefined /\ FIsArrayOfClass /\ FVal = Arr(<<Null, SubExtra>>) /\ Ret
  /\ result.val.o.f = Arr(<<Null, Obj([street |-> Str("Main"), zip |-> Num("7")])>>)

\* f is a RecordArray or ScalarArray field given a sequence with a null in it
FHasNullElement ==
  /\ FDefined /\ (FIsArrayOfClass \/ FIsArrayOfScalar) /\ FVal.t = "array"
  /\ \E i \in 1..Len(FVal.a) : FVal.a[i] = Null

\* C15: a null element of a RecordArray or ScalarArray field raises an error
\* for f when the field is not nullable, and when the field is nullable it is
\* returned as null at its index.
C15_NullElement ==
  FHasNullElement =>
    IF FRaw.nullable
    THEN Ret => \A i \in 1..Len(FVal.a) : FVal.a[i] = Null => result.val.o.f.a[i] = Null
    ELSE Thr /\ ~ErrAboutId

\* The index of the first undefined element of f's sequence
FirstUndefined ==
  CHOOSE i \in 1..Len(FVal.a) : FVal.a[i] = Undef /\ \A j \in 1..(i - 1) : FVal.a[j] # Undef

\* The element is one the array case lets through
ElementPasses(v) ==
  IF FIsArrayOfClass
  THEN ElementOut(v, "Sub", "Dto.f[]").ok
  ELSE (v = Null /\ FRaw.nullable) \/ transformPrimitive(v, FDesc, "Dto.f[]").ok

\* C16: when a RecordArray or ScalarArray field is given a sequence with an
\* undefined element, and the elements before it are let through, the call
\* raises "Invalid value in array" with a path that ends in the index of that
\* element, whether the field is required or not, nullable or not.
C16_UndefinedElement ==
  (/\ FDefined /\ (FIsArrayOfClass \/ FIsArrayOfScalar) /\ FVal.t = "array"
   /\ \E i \in 1..Len(FVal.a) : FVal.a[i] = Undef
   /\ \A j \in 1..(FirstUndefined - 1) : ElementPasses(FVal.a[j])) =>
    /\ Thr /\ result.err.message = "Invalid value in array"
    /\ result.err.dtoName = "Dto.f[" \o ToString(FirstUndefined - 1) \o "]"
    /\ result.err.receivedValue = Undef

\* C16 witness: a nullable, optional RecordArray field held a record followed
\* by undefined, and the error names index 1.
C16_Witness ==
  /\ FDefined /\ FIsArrayOfClass /\ FRaw.nullable /\ ~FRaw.required
  /\ FVal = Arr(<<SubExtra, Undef>>)
  /\ Thr /\ result.err.message = "Invalid value in array" /\ result.err.dtoName = "Dto.f[1]"

(***************************************************************************)
(* The schema cache over time: requests whose handler answers later, and   *)
(* routes whose response class is another class of the same name (as the   *)
(* test suite declares a new UserDto in every test).                       *)
(***************************************************************************)
\* A class named Dto that declares no f
WithoutF == [MetaOf("number", TRUE, FALSE, FALSE, "none") EXCEPT !["Dto"].factory = Tail(@)]

\* Five classes named Dto: four differ in the type of f, one has no f
CacheMetas ==
  {MetaOf(kind, TRUE, FALSE, FALSE, "none") : kind \in {"number", "string", "class", "classArray"}}
  \cup {WithoutF}

CacheInputs ==
  {RootObj(fv, Num("1"), FALSE) : fv \in {Str("30"), Num("30"), SubCoerce, Arr(<<SubCoerce, SubGood>>)}}

InitCache ==
  /\ meta \in CacheMetas
  /\ isArray \in BOOLEAN
  /\ data \in IF isArray THEN {Arr(<<o>>) : o \in CacheInputs} ELSE CacheInputs
  /\ options = PlainOptions
  /\ config = PlainConfig
  /\ upstream = NoError
  /\ dtoCache = EmptyCache
  /\ factoryCalls = NoCalls
  /\ pending = NoPending
  /\ result = NoResult
  /\ delivered = NoDelivery
  /\ ncalls = 0

\* From now on the route's response class is another class named Dto
Redeclare ==
  /\ meta' \in CacheMetas \ {meta}
  /\ UNCHANGED <<dtoCache, factoryCalls, isArray, options, config, upstream, data, pending,
                 result, delivered, ncalls>>

NextCache == Intercept \/ Begin \/ Emit \/ ClearCache \/ Redeclare

SpecCache == InitCache /\ [][NextCache]_vars

ClassNames == {"Dto", "Sub"}

\* C17: in every step other than clearCache, a class name that is cached
\* keeps its descriptor and its factory is not invoked; a name that is not
\* cached has its factory invoked at most once, and exactly when the step
\* caches it; and an intercept() that finds the root name cached takes the
\* cached descriptor as it is, whatever the class now declares.
C17_Memoized ==
  [][~ClearCache =>
       /\ \A n \in ClassNames :
            IF n \in DOMAIN dtoCache
            THEN /\ factoryCalls'[n] = factoryCalls[n]
                 /\ n \in DOMAIN dtoCache' /\ dtoCache'[n] = dtoCache[n]
            ELSE /\ factoryCalls'[n] \in {factoryCalls[n], factoryCalls[n] + 1}
                 /\ (factoryCalls'[n] = factoryCalls[n] + 1) <=> (n \in DOMAIN dtoCache')
       /\ (Begin /\ Root \in DOMAIN dtoCache) => pending'.dtoFilter = dtoCache[Root]]_vars

\* C17 witness: after two calls of intercept() the factory of Dto has been
\* invoked once, and the second call took the descriptor of the first
\* although the class now declares another one.
C17_Witness ==
  /\ ncalls = 2 /\ factoryCalls[Root] = 1 /\ Root \in DOMAIN dtoCache
  /\ pending # NoPending /\ pending.dtoFilter = dtoCache[Root]
  /\ dtoCache[Root] # BuildFilter(meta, Root)

\* What the try block gives for the present data under the root filter flt
\* and the cache c
ResultUnder(flt, c) ==
  LET r == TryBlock(meta, c, flt, isArray, Settings(options, config), data)
  IN IF r.ok THEN Returned(r.val) ELSE Thrown(r.err)

\* The descriptor the class of the pending request would be given by a
\* resolve that finds nothing cached
PendingRebuilt == BuildFilter([meta EXCEPT ![Root] = pending.dtoType], Root)

\* C18 as stated: clearCache empties the cache, and a transform that starts
\* while nothing has been cached since (the map callback of a pending request
\* included) works with the descriptor a rebuild from its class gives.
C18_Original ==
  [][/\ ClearCache => dtoCache' = EmptyCache
     /\ (Emit /\ Transforming /\ dtoCache = EmptyCache) => pending.dtoFilter = PendingRebuilt]_vars

\* C18 amended: clearCache removes every descriptor; in every step a name
\* that enters the cache gets the descriptor built from what its class
\* declares now, by one invocation of its factory; so an intercept() that
\* runs while the cache is empty works with the present declarations.  A
\* request intercepted before the clear keeps the root filter it resolved
\* then: its map callback runs with that filter also after the clear.
C18_Clear ==
  [][/\ ClearCache => dtoCache' = EmptyCache
     /\ \A n \in ClassNames :
          (n \notin DOMAIN dtoCache /\ n \in DOMAIN dtoCache') =>
            /\ dtoCache'[n] = BuildFilter(meta, n)
            /\ factoryCalls'[n] = factoryCalls[n] + 1
     /\ (Begin /\ dtoCache = EmptyCache) => pending'.dtoFilter = BuildFilter(meta, Root)
     /\ (Intercept /\ dtoCache = EmptyCache) =>
          result' = ResultUnder(BuildFilter(meta, Root),
                                [Mem EXCEPT !.dto = Root :> BuildFilter(meta, Root),
                                            !.calls[Root] = @ + 1])
     /\ Emit => result' = ResultUnder(pending.dtoFilter, Mem)]_vars

\* C18 witness: the factory of Dto has been invoked a second time, which
\* only a clearCache between two resolves allows, and the cache holds what
\* the class declares now.
C18_Witness ==
  /\ factoryCalls[Root] = 2 /\ Root \in DOMAIN dtoCache
  /\ dtoCache[Root] = BuildFilter(meta, Root)
  /\ Ret

(***************************************************************************)
(* Routes: every combination of @ResponseType options and interceptor      *)
(* defaults, in and out of debug mode, with handlers that answer or raise. *)
(***************************************************************************)
\* The envelope a route declares and the one the interceptor is given as
\* default (the README's { meta: null, data: null })
RouteEnvelope == Obj([status |-> Str("ok")])
DefaultEnvelope == Obj([meta |-> Null, data |-> Null])

RouteOptions ==
  {NoDecorator} \cup
  [via : {"ResponseType", "reflector"}, noTransform : BOOLEAN,
   response : {Undef, RouteEnvelope}, responseKey : {Undef, Str("payload")},
   dataKey : {Undef, Str("rows")}]

RouteConfigs ==
  [debug : BOOLEAN, defaultResponse : {Undef, DefaultEnvelope},
   defaultResponseKey : {Undef, Str("result")}, defaultDataKey : {Undef, Str("rows")}]

\* What a handler may raise: a BadRequestException of its own, another
\* HttpException, a plain Error, and a value that is no Error
UpstreamBadRequest ==
  BadRequestException([message |-> "Bad input", debug |-> Null], "upstream")
UpstreamErrors ==
  {UpstreamBadRequest, ErrorOf("NotFoundException", "Not Found"), ErrorOf("Error", "boom"),
   [name |-> "", value |-> Str("oops")]}

RouteRecords ==
  {RootObj(Num("30"), Num("1"), FALSE), RootObj(Str("abc"), Num("1"), FALSE),
   RootObj(BigIntV("7"), Null, FALSE)}
RouteInputs ==
  RouteRecords \cup {Undef, Null, Arr(<<RootObj(Num("30"), Num("1"), FALSE)>>),
                     Obj([rows |-> RootObj(Str("30"), Num("1"), FALSE)])}

InitRoute ==
  /\ meta = MetaOf("number", TRUE, FALSE, FALSE, "none")
  /\ isArray \in BOOLEAN
  /\ options \in RouteOptions
  /\ config \in RouteConfigs
  /\ upstream \in {NoError} \cup UpstreamErrors
  /\ data \in IF upstream = NoError THEN RouteInputs ELSE {Undef}
  /\ dtoCache = EmptyCache
  /\ factoryCalls = NoCalls
  /\ pending = NoPending
  /\ result = NoResult
  /\ delivered = NoDelivery
  /\ ncalls = 0

SpecRoute == InitRoute /\ [][Next]_vars

\* The route wraps what it delivers in an envelope
HasEnvelope == options.via # "none" /\ ~Not(Settings(options, config).response)
\* What is placed in the envelope: the transformed data, or the handler's
\* answer on a noTransform route
Payload == IF options.noTransform THEN data ELSE result.val

\* C19: on a route whose @ResponseType options give no responseKey, the
\* envelope delivered carries the data under the interceptor's configured
\* defaultResponseKey ("data" when none is configured).
C19_DefaultResponseKey ==
  (/\ delivered.state = "value" /\ HasEnvelope
   /\ options.via = "ResponseType" /\ options.responseKey = Undef) =>
    LET key == Constructed(config).defaultResponseKey.s
    IN /\ delivered.val.t = "object"
       /\ key \in DOMAIN delivered.val.o
       /\ delivered.val.o[key] = Payload

\* The message handleError gives a TransformError, out of and in debug mode
ValidationMessages(e) ==
  {"Validation error: " \o e.message,
   "Validation error in " \o e.dtoName \o ": " \o e.message}

\* C20: on a transforming route every error delivered is a
\* BadRequestException; for a TransformError thrown in the map callback its
\* message starts with "Validation error", for any other Error, thrown there
\* or raised by the handler, with "Unexpected error"; a BadRequestException
\* raised by the handler is delivered as it is; and converting the delivered
\* error once more gives the same error.
C20_BadRequest ==
  (Transforming /\ delivered.state = "error") =>
    /\ delivered.err.name = "BadRequestException"
    /\ (Thr /\ result.err.name = "TransformError") =>
         delivered.err.response.message \in ValidationMessages(result.err)
    /\ (Thr /\ result.err.name # "TransformError") =>
         delivered.err.response.message = "Unexpected error: " \o result.err.message
    /\ (upstream # NoError /\ upstream.name \notin {"", "BadRequestException"}) =>
         delivered.err.response.message = "Unexpected error: " \o upstream.message
    /\ (upstream # NoError /\ upstream.name = "BadRequestException") => delivered.err = upstream
    /\ handleError(delivered.err, config.debug) = [thrown |-> FALSE, val |-> delivered.err]

(***************************************************************************)
(* Lazy resolution: requests whose handler answers later, over classes     *)
(* whose field f refers to Sub directly, in an array or from inside an     *)
(* inline field map, and inputs that do or do not hold a value for it.     *)
(***************************************************************************)
LazyMetas ==
  {MetaOf(kind, required, nullable, propNoCheck, "none") :
     kind \in {"number", "class", "classArray", "inline"}, required \in BOOLEAN,
     nullable \in BOOLEAN, propNoCheck \in BOOLEAN}

\* SubParent holds a record under the Sub-typed key parent, SubOrphan null
SubParent == Obj([street |-> Str("Main"), parent |-> SubGood])
SubOrphan == Obj([street |-> Str("Main"), parent |-> Null])

LazyVals ==
  {Absent, Undef, Null, Num("30"), SubGood, SubParent, SubOrphan, Arr(<<>>), Arr(<<Null>>),
   Arr(<<Undef, SubGood>>), Arr(<<Null, SubGood>>), Arr(<<SubGood>>), Arr(<<Num("30")>>)}

LazyRecords == {RootObj(fv, Num("1"), FALSE) : fv \in LazyVals}

InitLazy ==
  /\ meta \in LazyMetas
  /\ isArray \in BOOLEAN
  /\ data \in IF isArray THEN {Arr(<<o>>) : o \in LazyRecords} \cup {Arr(<<>>), Null}
              ELSE LazyRecords \cup {Null}
  /\ options = PlainOptions
  /\ config = PlainConfig
  /\ upstream = NoError
  /\ dtoCache = EmptyCache
  /\ factoryCalls = NoCalls
  /\ pending = NoPending
  /\ result = NoResult
  /\ delivered = NoDelivery
  /\ ncalls = 0

NextLazy == Intercept \/ Begin \/ Emit \/ ClearCache

SpecLazy == InitLazy /\ [][NextLazy]_vars

\* The element is handed to transform together with the element class's
\* filter: it is not undefined, and not a null the field's nullable flag
\* short-cuts
ElementTransformed(item, fm) == item.t # "undefined" /\ ~(item.t = "null" /\ fm.nullable)

RECURSIVE HoldsClassValue(_, _)
\* Somewhere in v, transformed under filter, a key of a Record descriptor
\* holds a defined non-null object, or a key of a RecordArray descriptor a
\* sequence with an element that is transformed; inline field maps are
\* followed, referenced classes are not.
HoldsClassValue(v, filter) ==
  CASE v.t = "model" -> HoldsClassValue(v.p, filter)
    [] v.t = "array" -> \E i \in 1..Len(v.a) : HoldsClassValue(v.a[i], filter)
    [] v.t = "object" ->
         \E i \in 1..Len(filter) :
           LET fm == filter[i]
           IN /\ fm.name \in DOMAIN v.o
              /\ ~IsNullish(v.o[fm.name])
              /\ CASE fm.isNestedObject -> HoldsClassValue(v.o[fm.name], fm.nestedFields)
                   [] fm.typeCheck = 2 -> TypeOf(v.o[fm.name]) = "object"
                   [] fm.typeCheck = 4 ->
                        /\ v.o[fm.name].t = "array"
                        /\ \E j \in 1..Len(v.o[fm.name].a) :
                             ElementTransformed(v.o[fm.name].a[j], fm)
                   [] OTHER -> FALSE
    [] OTHER -> FALSE

\* The step caches a descriptor for Sub
SubEnters == "Sub" \notin DOMAIN dtoCache /\ "Sub" \in DOMAIN dtoCache'

\* C21: resolving the root class adds the root's entry and nothing else,
\* whatever its fields refer to; an entry for the referenced class Sub enters
\* the cache only in a step that transforms data in which a Sub-typed key
\* holds a defined non-null object or a Sub-array key a sequence with a
\* transformed element; and it does enter when f, the first field, is a
\* Record given a record.
C21_Lazy ==
  [][/\ Begin => DOMAIN dtoCache' = DOMAIN dtoCache \cup {Root}
     /\ (SubEnters /\ Emit) => HoldsClassValue(data, pending.dtoFilter)
     /\ (SubEnters /\ Intercept) => HoldsClassValue(data, BuildFilter(meta, Root))
     /\ SubEnters => (Emit \/ Intercept)
     /\ ((Emit \/ Intercept) /\ data.t = "object" /\ ~isArray /\ FIsRecord
           /\ "f" \in DOMAIN data.o /\ data.o.f.t = "object") =>
          "Sub" \in DOMAIN dtoCache']_vars

\* C21 witness: the request was intercepted and answered; f is a nullable
\* RecordArray given a null and a record, and Sub's factory has been invoked
\* once, for the record.
C21_Witness ==
  /\ ncalls = 1 /\ pending = NoPending /\ Ret
  /\ FIsArrayOfClass /\ FRaw.nullable /\ data = RootObj(Arr(<<Null, SubGood>>), Num("1"), FALSE)
  /\ factoryCalls = [c \in {"Dto", "Sub"} |-> 1]
  /\ DOMAIN dtoCache = {"Dto", "Sub"}

(***************************************************************************)
(* Self-referential schemas: Dto refers to itself through f (Dto or        *)
(* [Dto]), or to Sub, which refers back to Dto through owner and to itself *)
(* through parent.                                                         *)
(***************************************************************************)
CycleKinds == {"self", "selfArray", "mutual"}

\* The declarations in which f has the cyclic type of the kind, and Sub the
\* optional, nullable field owner: Dto
CycleMetaOf(kind, required, nullable) ==
  [MetaOf("class", required, nullable, FALSE, "none") EXCEPT
     !["Dto"].factory[1].type =
        CASE kind = "self" -> TClass("Dto")
          [] kind = "selfArray" -> TArrayOf(TClass("Dto"))
          [] kind = "mutual" -> TClass("Sub"),
     !["Sub"].factory = SubFields \o <<RawField("owner", TClass("Dto"), FALSE, TRUE)>>]

CycleMetas ==
  {CycleMetaOf(kind, required, nullable) :
     kind \in CycleKinds, required \in BOOLEAN, nullable \in BOOLEAN}

\* Records of Dto: DLeaf owns no f, DNull holds null under it
DLeaf == Obj([id |-> Num("1")])
DNull == Obj([f |-> Null, id |-> Num("1")])
DWith(fv) == Obj([f |-> fv, id |-> Num("1")])
\* Records of Sub that hold a Dto under owner, and a Sub under parent
SubOwned(owner) == Obj([street |-> Str("Main"), owner |-> owner])
SubChild(parent) == Obj([street |-> Str("Main"), parent |-> parent])

CycleRecords ==
  {DLeaf, DNull,
   DWith(DLeaf), DWith(DWith(DNull)), DWith(DWith(DWith(DLeaf))),
   DWith(Model(DWith(Model(DLeaf)))),
   DWith(Arr(<<>>)), DWith(Arr(<<DLeaf, DLeaf>>)),
   DWith(Arr(<<DWith(Arr(<<DNull>>)), DWith(Arr(<<DWith(Arr(<<>>))>>))>>)),
   DWith(SubGood), DWith(SubOwned(DLeaf)), DWith(SubOwned(DWith(SubOwned(DNull)))),
   DWith(SubChild(SubOwned(DWith(SubChild(SubGood))))),
   DWith(Num("30"))}

CycleInputs == CycleRecords \cup {Null, Model(DWith(Model(DWith(DLeaf))))}

InitCycle ==
  /\ meta \in CycleMetas
  /\ isArray \in BOOLEAN
  /\ data \in IF isArray THEN {Arr(<<o, DLeaf>>) : o \in CycleRecords} \cup {Arr(<<>>)}
              ELSE CycleInputs
  /\ options = PlainOptions
  /\ config = PlainConfig
  /\ upstream = NoError
  /\ dtoCache = EmptyCache
  /\ factoryCalls = NoCalls
  /\ pending = NoPending
  /\ result = NoResult
  /\ delivered = NoDelivery
  /\ ncalls = 0

SpecCycle == InitCycle /\ [][Next]_vars

\* The largest of the numbers in S, 0 when there is none
MaxOf(S) == IF S = {} THEN 0 ELSE CHOOSE x \in S : \A y \in S : y <= x

RECURSIVE ValueDepth(_)
\* The nesting depth of a value: a record or a sequence is one level above
\* the deepest value it holds, an ORM instance is as deep as its plain form,
\* anything else has depth 0
ValueDepth(v) ==
  CASE v.t = "object" -> 1 + MaxOf({ValueDepth(v.o[k]) : k \in DOMAIN v.o})
    [] v.t = "array" -> 1 + MaxOf({ValueDepth(v.a[i]) : i \in 1..Len(v.a)})
    [] v.t = "model" -> ValueDepth(v.p)
    [] OTHER -> 0

\* The call of intercept() on the present data, with the frames it opened
Call == Outcome(meta, Mem, isArray, Settings(options, config), data)

\* The descriptor holds the referenced class by its identifier only
ByIdentifier(fm) ==
  /\ fm.nestedFields = <<>>
  /\ fm.type \in {TClass("Dto"), TClass("Sub"), TArrayOf(TClass("Dto"))}

\* C22: with a schema that refers to itself directly or through another
\* class, every resolve ends with one invocation of the class's factory and
\* a descriptor that holds the referenced class by identifier only; every
\* transform ends, by returning or throwing, with no frame left open; and the
\* largest number of frames of transform() open at once is at most the
\* nesting depth of the input, plus the one frame a scalar or null is given.
C22_Terminates ==
  /\ \A n \in DOMAIN dtoCache :
       /\ factoryCalls[n] >= 1
       /\ \A i \in 1..Len(dtoCache[n]) :
            dtoCache[n][i].typeCheck \in {2, 4} => ByIdentifier(dtoCache[n][i])
  /\ ncalls > 0 => (Ret \/ Thr)
  /\ Call.cache.depth = 0
  /\ Call.cache.peak <= ValueDepth(data) + 1
  /\ (data.t \in {"object", "array", "model"}) => Call.cache.peak <= ValueDepth(data)

\* C22 witness: Dto refers to Sub and Sub back to Dto; a chain of six
\* records through f, parent and owner was transformed with six frames.
C22_Witness ==
  /\ FRaw.type = TClass("Sub")
  /\ data = DWith(SubChild(SubOwned(DWith(SubChild(SubGood)))))
  /\ Ret /\ result.val = data
  /\ Call.cache.peak = 6 /\ ValueDepth(data) = 6
  /\ DOMAIN dtoCache = {"Dto", "Sub"}

\* C23: the cache goes by the class's name.  When the route's class is
\* another class named Dto than the one whose descriptor is cached, and no
\* clearCache came between, intercept() builds nothing, invokes no factory
\* and takes the cached descriptor: the data is transformed as the first
\* class declares it.
C23_SharedName ==
  [][/\ Redeclare => (dtoCache' = dtoCache /\ factoryCalls' = factoryCalls)
     /\ (Intercept /\ Root \in DOMAIN dtoCache) =>
          /\ result' = ResultUnder(dtoCache[Root], Mem)
          /\ dtoCache'[Root] = dtoCache[Root]
          /\ factoryCalls'[Root] = factoryCalls[Root]
     /\ (Begin /\ Root \in DOMAIN dtoCache) =>
          /\ pending'.dtoFilter = dtoCache[Root]
          /\ dtoCache' = dtoCache]_vars

\* C23 witness: the first Dto declared no f, the present Dto declares a
\* required f: string; the record that holds "30" under f came back
\* without f.
C23_Witness ==
  /\ ncalls = 2 /\ pending = NoPending /\ factoryCalls[Root] = 1
  /\ Root \in DOMAIN dtoCache /\ dtoCache[Root] = BuildFilter(WithoutF, Root)
  /\ meta = MetaOf("string", TRUE, FALSE, FALSE, "none")
  /\ data = RootObj(Str("30"), Num("1"), FALSE)
  /\ result = Returned(Obj([id |-> Num("1")]))

(***************************************************************************)
(* Error order: inputs that break the schema in several places at once, at *)
(* the root, inside the record under f, inside its parent and in the       *)
(* elements of a sequence.                                                 *)
(***************************************************************************)
OrderMetas ==
  {MetaOf(kind, required, FALSE, propNoCheck, "none") :
     kind \in {"class", "classArray", "inline"}, required \in BOOLEAN, propNoCheck \in BOOLEAN}

\* SubTwo lacks street and holds a zip that is no number; SubLate holds a
\* zip that needs coercion before a parent that lacks street; SubNest a zip
\* that is no number before that parent; SubInner a parent that is wrong
\* twice.
SubTwo == Obj([zip |-> Str("abc")])
SubLate == Obj([street |-> Str("Main"), zip |-> Str("7"), parent |-> SubBad])
SubNest == Obj([street |-> Str("Main"), zip |-> Str("abc"), parent |-> SubBad])
SubInner == Obj([street |-> Str("Main"), parent |-> SubTwo])

OrderVals ==
  {Absent, Null, Num("30"), SubGood, SubBad, SubWrong, SubTwo, SubLate, SubNest, SubInner,
   Arr(<<SubGood, SubBad, SubTwo>>), Arr(<<SubTwo, Undef>>), Arr(<<SubGood, Undef, SubBad>>),
   Arr(<<Num("30"), SubBad>>), Arr(<<SubInner, SubNest>>)}

OrderRecords == {RootObj(fv, idv, FALSE) : fv \in OrderVals, idv \in IdVals}

OrderSequences ==
  {Arr(<<RootObj(SubGood, Num("1"), FALSE), RootObj(fv, Str("x"), FALSE),
         RootObj(Num("30"), Str("x"), FALSE)>>) : fv \in OrderVals}

InitOrder ==
  /\ meta \in OrderMetas
  /\ isArray \in BOOLEAN
  /\ data \in IF isArray THEN OrderSequences ELSE OrderRecords
  /\ options = PlainOptions
  /\ config = PlainConfig
  /\ upstream = NoError
  /\ dtoCache = EmptyCache
  /\ factoryCalls = NoCalls
  /\ pending = NoPending
  /\ result = NoResult
  /\ delivered = NoDelivery
  /\ ncalls = 0

SpecOrder == InitOrder /\ [][Next]_vars

\* The least number of a non-empty set of numbers
MinOf(S) == CHOOSE x \in S : \A y \in S : x <= y

\* Two errors name the same place and complaint
SameError(e1, e2) ==
  /\ e1.message = e2.message /\ e1.dtoName = e2.dtoName /\ e1.fieldName = e2.fieldName
  /\ e1.receivedValue = e2.receivedValue /\ e1.expectedType = e2.expectedType

\* What the field loop of transform does with the record v when the filter
\* holds its i-th descriptor only
FieldAlone(v, filter, i, dtoName) ==
  TransformFields(meta, v, <<filter[i]>>, 1, EmptyRec, dtoName, Mem)
\* The fields of the filter that v violates, each taken alone
Violators(v, filter, dtoName) ==
  {i \in 1..Len(filter) : ~FieldAlone(v, filter, i, dtoName).ok}

\* What transformField does with the record x under the inline descriptor fm
\* when its field map holds the j-th nested descriptor only
NestedAlone(x, fm, j, fieldPath) ==
  transformField(meta, x, [fm EXCEPT !.nestedFields = <<fm.nestedFields[j]>>], fieldPath, Mem)
NestedViolators(x, fm, fieldPath) ==
  {j \in 1..Len(fm.nestedFields) : ~NestedAlone(x, fm, j, fieldPath).ok}

\* What the array case of transformField does with the j-th element of x
ElementAlone(x, fm, j, fieldPath) ==
  TransformElements(meta, Arr(SubSeq(x.a, 1, j)), j, <<>>, fm, fieldPath, Mem)
ElementViolators(x, fm, fieldPath) ==
  {j \in 1..Len(x.a) : ~ElementAlone(x, fm, j, fieldPath).ok}

RECURSIVE InOrder(_, _, _, _)
\* err is the error of the first field, in the filter's order, that the
\* record v violates; and when that field holds a record of a class, a
\* sequence of them or an inline record, err is in turn the error of the
\* first violation inside it.
InOrder(v, filter, dtoName, err) ==
  /\ Violators(v, filter, dtoName) # {}
  /\ LET i == MinOf(Violators(v, filter, dtoName))
         fm == filter[i]
         fieldPath == dtoName \o "." \o fm.name
     IN /\ err = FieldAlone(v, filter, i, dtoName).err
        /\ (fm.name \in DOMAIN v.o /\ v.o[fm.name].t = "object" /\ fm.typeCheck = 2) =>
             InOrder(v.o[fm.name], BuildFilter(meta, fm.type.c), fieldPath, err)
        /\ (fm.name \in DOMAIN v.o /\ v.o[fm.name].t = "object" /\ fm.isNestedObject) =>
             /\ NestedViolators(v.o[fm.name], fm, fieldPath) # {}
             /\ err = NestedAlone(v.o[fm.name], fm,
                                  MinOf(NestedViolators(v.o[fm.name], fm, fieldPath)), fieldPath).err
        /\ (fm.name \in DOMAIN v.o /\ v.o[fm.name].t = "array" /\ fm.typeCheck = 4) =>
             /\ ElementViolators(v.o[fm.name], fm, fieldPath) # {}
             /\ LET j == MinOf(ElementViolators(v.o[fm.name], fm, fieldPath))
                IN /\ SameError(err, ElementAlone(v.o[fm.name], fm, j, fieldPath).err)
                   /\ v.o[fm.name].a[j].t = "object" =>
                        InOrder(v.o[fm.name].a[j], BuildFilter(meta, fm.type.e.c),
                                IndexPath(fieldPath, j), err)

\* The records of a top-level sequence that violate the root filter
ItemViolators ==
  {i \in 1..Len(data.a) : Violators(data.a[i], BuildFilter(meta, Root), "Dto") # {}}

\* C24: a call on an input that violates the schema ends with one error and
\* no value, and the error is that of the first violation in declaration
\* order, depth-first: of the first violating field of the root, inside it of
\* its first violating field or element, and so on; in a top-level sequence,
\* of the first violating record.  An input without violation returns.
C24_FirstError ==
  /\ (result.state # "none" /\ data.t = "object") =>
       IF Violators(data, BuildFilter(meta, Root), "Dto") = {}
       THEN Ret
       ELSE Thr /\ delivered.state = "error"
                /\ InOrder(data, BuildFilter(meta, Root), "Dto", result.err)
  /\ (result.state # "none" /\ data.t = "array") =>
       IF ItemViolators = {}
       THEN Ret
       ELSE Thr /\ delivered.state = "error"
                /\ InOrder(data.a[MinOf(ItemViolators)], BuildFilter(meta, Root), "Dto", result.err)

(***************************************************************************)
(* Inline field maps against classes: f is an inline field map that        *)
(* declares what Sub declares, and the same data is also transformed with  *)
(* f: Sub.                                                                 *)
(***************************************************************************)
InlineMetas ==
  {MetaOf("inline", required, nullable, FALSE, "none") :
     required \in BOOLEAN, nullable \in BOOLEAN}

\* SubUndef owns zip, which is not required, and holds undefined under it
SubUndef == Obj([street |-> Str("Main"), zip |-> Undef])

InlineVals ==
  {Absent, Null, Undef, Num("30"), SubGood, SubFull, SubExtra, SubCoerce, SubUndef, SubBad,
   SubWrong, SubDeep, SubParent, SubOrphan, SubLate, Arr(<<SubGood>>), Arr(<<SubCoerce>>)}

InlineRecords == {RootObj(fv, idv, FALSE) : fv \in InlineVals, idv \in IdVals}

InitInline ==
  /\ meta \in InlineMetas
  /\ isArray \in BOOLEAN
  /\ data \in IF isArray THEN {Arr(<<o>>) : o \in InlineRecords} ELSE InlineRecords
  /\ options = PlainOptions
  /\ config = PlainConfig
  /\ upstream = NoError
  /\ dtoCache = EmptyCache
  /\ factoryCalls = NoCalls
  /\ pending = NoPending
  /\ result = NoResult
  /\ delivered = NoDelivery
  /\ ncalls = 0

SpecInline == InitInline /\ [][Next]_vars

\* The declarations with f: Sub in place of the inline field map
AsRecord(m) == [m EXCEPT !["Dto"].factory[1].type = TClass("Sub")]

\* The call on the present data when f is declared f: Sub, nothing cached
RecordCall ==
  Outcome(AsRecord(meta), [Mem EXCEPT !.dto = EmptyCache], isArray,
          Settings(options, config), data)

\* The field an error is about: the second pass over an inline record names
\* it in dtoName, a missing-key error in dtoName and fieldName, every other
\* error in dtoName
FieldOf(e) ==
  IF e.fieldName = "" \/ e.message = "Invalid type for nested field '" \o e.fieldName \o "'"
  THEN e.dtoName
  ELSE e.dtoName \o "." \o e.fieldName

\* The input holds a value under f
HoldsF == IF data.t = "array" THEN "f" \in DOMAIN data.a[1].o ELSE "f" \in DOMAIN data.o

\* C25: with f an inline field map of the fields Sub declares, a call on an
\* input that holds a value under f ends as the call with f: Sub does: both
\* return the same value, or both raise an error about the same field.
C25_InlineAsRecord ==
  (result.state # "none" /\ FIsInline /\ FRaw.type.fields = meta["Sub"].factory /\ HoldsF) =>
    IF RecordCall.ok
    THEN Ret /\ result.val = RecordCall.val
    ELSE Thr /\ FieldOf(result.err) = FieldOf(RecordCall.err)

\* The not-an-object error raised for f
FNotAnObject ==
  /\ Thr /\ result.err.message = "Field should be an object"
  /\ result.err.dtoName = "Dto.f" /\ result.err.expectedType = "object"
  /\ result.err.receivedValue = FVal

\* C26: a Record or NestedStructure field that is not skip-validation and is
\* given a defined non-null value that is no record, a scalar or a sequence,
\* raises "Field should be an object" for it.
C26_NotAnObject ==
  (FDefined /\ (FIsRecord \/ FIsInline) /\ ~FDesc.noCheck /\ FVal.t \notin {"object", "model"}) =>
    FNotAnObject

(***************************************************************************)
(* Classification: raw descriptions of f that carry an enum together with  *)
(* every type a field can have.                                            *)
(***************************************************************************)
\* The declarations of the kind with the enum RoleEnum added to f
WithEnum(m) ==
  [m EXCEPT !["Dto"].factory[1].hasEnum = TRUE, !["Dto"].factory[1].enum = RoleEnum]

KindMetas ==
  LET plain == {MetaOf(kind, required, FALSE, FALSE, "none") :
                  kind \in {"string", "class", "classArray", "primArray", "inline"},
                  required \in BOOLEAN}
  IN plain \cup {WithEnum(m) : m \in plain}

KindVals ==
  {Absent, Str("admin"), Str("abc"), Num("30"), SubGood, SubBad,
   Arr(<<>>), Arr(<<Str("admin")>>), Arr(<<Num("30"), Str("abc")>>), Arr(<<SubGood>>)}

KindRecords == {RootObj(fv, Num("1"), FALSE) : fv \in KindVals}

InitKinds ==
  /\ meta \in KindMetas
  /\ isArray \in BOOLEAN
  /\ data \in IF isArray THEN {Arr(<<o>>) : o \in KindRecords} ELSE KindRecords
  /\ options = PlainOptions
  /\ config = PlainConfig
  /\ upstream = NoError
  /\ dtoCache = EmptyCache
  /\ factoryCalls = NoCalls
  /\ pending = NoPending
  /\ result = NoResult
  /\ delivered = NoDelivery
  /\ ncalls = 0

SpecKinds == InitKinds /\ [][Next]_vars

\* The kinds the descriptor says the field has
KindsOf(fm) ==
  {k \in {"isPrimitive", "isClass", "isArrayOfClass", "isEnum", "isArrayOfPrimitive",
          "isNestedObject"} : fm[k]}

RECURSIVE OneKindEach(_)
\* Every descriptor of the filter, and of the inline field maps in it, has
\* one kind
OneKindEach(filter) ==
  \A i \in 1..Len(filter) :
    /\ Cardinality(KindsOf(filter[i])) = 1
    /\ OneKindEach(filter[i].nestedFields)

\* C27: every cached descriptor has exactly one kind; and a field whose raw
\* description carries an enum is of kind Enum only, whatever its type, and
\* is transformed by membership: a member of the enum is returned as it is,
\* every other defined non-null value raises "Invalid enum value".
C27_OneKind ==
  /\ \A n \in DOMAIN dtoCache : OneKindEach(dtoCache[n])
  /\ (Root \in DOMAIN dtoCache /\ FRaw.hasEnum) => KindsOf(dtoCache[Root][1]) = {"isEnum"}
  /\ (FDefined /\ FRaw.hasEnum) =>
       IF FInEnum
       THEN YieldsF(FVal)
       ELSE Thr /\ result.err.message = "Invalid enum value" /\ result.err.dtoName = "Dto.f"

(***************************************************************************)
(* Unrecognized scalar types: f is declared with a function that is        *)
(* neither a class nor one of the six scalar constructors (Object), with a *)
(* sequence of those, or with a sequence of sequences (number[][]).        *)
(***************************************************************************)
TMatrix == TArrayOf(TArrayOf(TNumber))

UnknownTypes == {TObject, TArrayOf(TObject), TMatrix}

UnknownMetas ==
  {[MetaOf("number", required, nullable, propNoCheck, classFlag) EXCEPT
      !["Dto"].factory[1].type = type] :
     type \in UnknownTypes, required \in BOOLEAN, nullable \in BOOLEAN,
     propNoCheck \in BOOLEAN, classFlag \in ClassFlags}

Row == Arr(<<Num("1"), Num("2")>>)

UnknownVals ==
  {Absent, Null, Undef, Num("30"), Str("abc"), Bool("true"), BigIntV("7"), DateV("0"),
   SubGood, Row, Arr(<<>>), Arr(<<Null>>), Arr(<<Null, Num("30")>>), Arr(<<Undef, Num("30")>>),
   Arr(<<Row, Arr(<<Str("30"), Num("2")>>)>>), Arr(<<SubGood>>), Arr(<<Str("abc"), Undef>>)}

UnknownRecords == {RootObj(fv, Num("1"), FALSE) : fv \in UnknownVals}

InitUnknown ==
  /\ meta \in UnknownMetas
  /\ isArray = FALSE
  /\ data \in UnknownRecords
  /\ options = PlainOptions
  /\ config = PlainConfig
  /\ upstream = NoError
  /\ dtoCache = EmptyCache
  /\ factoryCalls = NoCalls
  /\ pending = NoPending
  /\ result = NoResult
  /\ delivered = NoDelivery
  /\ ncalls = 0

SpecUnknown == InitUnknown /\ [][Next]_vars

\* The elements of f's sequence that the array case hands to
\* transformPrimitive or refuses: all but the nulls of a nullable field
Checked == {j \in 1..Len(FVal.a) : ~(FVal.a[j] = Null /\ FRaw.nullable)}

\* C28: a Scalar field whose type name is 'unknown' and that is not
\* skip-validation raises "Field should be a unknown" for every defined
\* non-null value; a ScalarArray field of that kind raises it for the first
\* element it checks, with that element's index and value (an undefined
\* element raises "Invalid value in array" as in every sequence), and
\* returns only a sequence in which there is nothing to check.
C28_UnknownScalar ==
  (FDefined /\ ~FDesc.noCheck /\ FDesc.expectedType = "unknown") =>
    /\ FDesc.isPrimitive => FWrongType("unknown")
    /\ (FDesc.isArrayOfPrimitive /\ FVal.t = "array") =>
         IF Checked = {}
         THEN YieldsF(FVal)
         ELSE /\ Thr
              /\ result.err.dtoName = IndexPath("Dto.f", MinOf(Checked))
              /\ result.err.receivedValue = FVal.a[MinOf(Checked)]
              /\ result.err.message =
                   IF FVal.a[MinOf(Checked)] = Undef THEN "Invalid value in array"
                   ELSE "Field should be a unknown"

\* C28 witness: f: number[][] was given [[1, 2], ['30', 2]] and the first
\* row was refused.
C28_Witness ==
  /\ FRaw.type = TMatrix /\ ~FDesc.noCheck
  /\ data = RootObj(Arr(<<Row, Arr(<<Str("30"), Num("2")>>)>>), Num("1"), FALSE)
  /\ Thr /\ result.err.message = "Field should be a unknown"
  /\ result.err.dtoName = "Dto.f[0]" /\ result.err.receivedValue = Row

\* The class of the name n
ClassOf(n) == CHOOSE c \in DOMAIN meta : ClassName(meta, c) = n

\* The step is a call of intercept() or the answer of a pending request
Transforms == Intercept \/ Begin \/ Emit

ScalarMetas ==
  {[MetaOf("string", required, nullable, propNoCheck, classFlag) EXCEPT
      !["Dto"].factory[1].type = type] :
     type \in {TString, TBoolean}, required \in BOOLEAN, nullable \in BOOLEAN,
     propNoCheck \in BOOLEAN, classFlag \in ClassFlags}

FourKinds == {"number", "string", "boolean", "bigint"}

FourKindVals ==
  {Num("30"), Num("0"), Num("NaN"), Str(""), Str("abc"), Str("false"), Str("0"),
   Bool("true"), Bool("false"), BigIntV("7"), BigIntV("0")}

ScalarInputs ==
  {RootObj(fv, Num("1"), FALSE) :
     fv \in FourKindVals \cup {Null, Undef, Absent, DateV("0"), SubGood, Arr(<<Num("30")>>)}}

InitScalar ==
  /\ meta \in ScalarMetas
  /\ isArray = FALSE
  /\ data \in ScalarInputs
  /\ options = PlainOptions
  /\ config = PlainConfig
  /\ upstream = NoError
  /\ dtoCache = EmptyCache
  /\ factoryCalls = NoCalls
  /\ pending = NoPending
  /\ result = NoResult
  /\ delivered = NoDelivery
  /\ ncalls = 0

SpecScalar == InitScalar /\ [][Next]_vars

\* The values JavaScript takes for false among the four scalar kinds
Falsy == {Num("0"), Num("NaN"), BigIntV("0"), Str(""), Bool("false")}

====
